---- MODULE Spec2Model ----
(***************************************************************************)
(* Model of the pact mock server (rust/pact_mock_server_async/src/server.rs)*)
(* and of the verification of its report (pact_mock_server_cli).           *)
(*                                                                         *)
(* Option<T> values are sets with at most one element: None is {} and      *)
(* Some(v) is {v}.  A HashMap<String, _> is a function whose domain is a   *)
(* finite set of strings.  A Vec is a sequence.                            *)
(***************************************************************************)
EXTENDS Integers, Sequences, FiniteSets, TLC

(***************************************************************************)
(* Bounds of the model.                                                    *)
(***************************************************************************)
MaxInteractions == 2
MaxServed == 1
NumHandlers == 2
MaxReport == 3
MaxPieces == 3
MaxPactLinks == 2

None == {}
Some(v) == {v}

EmptyMap == [k \in {} |-> ""]

(***************************************************************************)
(* serde_json::Value.                                                      *)
(***************************************************************************)
Object(map) == [t |-> "object", object |-> map]
Array(seq) == [t |-> "array", array |-> seq]
String(atoms) == [t |-> "string", string |-> atoms]
Bool(b) == [t |-> "bool", bool |-> b]

(***************************************************************************)
(* OptionalBody {Missing, Empty, Null, Present(bytes)}                     *)
(***************************************************************************)
Missing == [kind |-> "Missing", bytes |-> ""]
Empty == [kind |-> "Empty", bytes |-> ""]
Present(b) == [kind |-> "Present", bytes |-> b]

(***************************************************************************)
(* String conversions, tabulated over the strings the model uses.          *)
(***************************************************************************)
to_lowercase(s) ==
    CASE s = "X-A" -> "x-a"
      [] s = "X-B" -> "x-b"
      [] s = "Content-Type" -> "content-type"
      [] s = "Access-Control-Allow-Origin" -> "access-control-allow-origin"
      [] s = "ACCESS-CONTROL-ALLOW-ORIGIN" -> "access-control-allow-origin"
      [] s = "GET" -> "get"
      [] s = "POST" -> "post"
      [] OTHER -> s

to_uppercase(s) ==
    CASE s = "get" -> "GET"
      [] s = "post" -> "POST"
      [] OTHER -> s

\* Header names and values the http crate refuses.
InvalidHeaderNames == {"Bad Name"}
InvalidHeaderValues == {"bad\nvalue"}

\* The order in which the model walks the keys of a map.
KeyOrder ==
    << "ACCESS-CONTROL-ALLOW-ORIGIN", "Access-Control-Allow-Origin", "Bad Name",
       "Content-Type", "X-A", "X-B", "access-control-allow-origin",
       "content-type", "message", "q", "x-a", "x-b" >>

RECURSIVE SelectKeys(_, _)
SelectKeys(order, keys) ==
    IF order = << >> THEN << >>
    ELSE IF Head(order) \in keys
         THEN << Head(order) >> \o SelectKeys(Tail(order), keys)
         ELSE SelectKeys(Tail(order), keys)

KeysOf(map) == SelectKeys(KeyOrder, DOMAIN map)

(***************************************************************************)
(* serde_json::Value::to_string and its inverse on the documents of the    *)
(* model.                                                                  *)
(***************************************************************************)
MaxJsonNesting == 2

RECURSIVE JoinStrings(_, _)
JoinStrings(strings, separator) ==
    IF strings = << >> THEN ""
    ELSE IF Len(strings) = 1 THEN Head(strings)
    ELSE Head(strings) \o separator \o JoinStrings(Tail(strings), separator)

RECURSIVE serde_json_to_string(_)
serde_json_to_string(json) ==
    CASE json.t = "string" -> "\"" \o json.string \o "\""
      [] json.t = "bool" -> IF json.bool THEN "true" ELSE "false"
      [] json.t = "array" ->
            "[" \o JoinStrings([i \in DOMAIN json.array |->
                                   serde_json_to_string(json.array[i])], ",") \o "]"
      [] json.t = "object" ->
            LET keys == KeysOf(json.object)
            IN "{" \o JoinStrings([i \in DOMAIN keys |->
                                      "\"" \o keys[i] \o "\":"
                                      \o serde_json_to_string(json.object[keys[i]])], ",")
               \o "}"

JsonLeaves == { String("hello"), String("bye"), Bool(FALSE) }

JsonWrapped(v) == { Object("message" :> v), Array(<< >>), Array(<< v >>), Array(<< v, v >>) }

RECURSIVE JsonValuesUpTo(_)
JsonValuesUpTo(n) ==
    IF n = 0 THEN JsonLeaves
    ELSE JsonLeaves \cup UNION { JsonWrapped(v) : v \in JsonValuesUpTo(n - 1) }

JsonDocuments == JsonValuesUpTo(MaxJsonNesting)

\* The text of each document.
JsonTexts == [json \in JsonDocuments |-> serde_json_to_string(json)]

\* The characters a JSON text can begin with.
JsonStart == { "{", "[", "\"", "t", "f", "n", "-",
               "0", "1", "2", "3", "4", "5", "6", "7", "8", "9" }

\* serde_json::from_str: the document the text is the serialization of.
parse_json(text) ==
    IF Len(text) > 0 /\ SubSeq(text, 1, 1) \in JsonStart
    THEN { json \in JsonDocuments : JsonTexts[json] = text }
    ELSE None

(***************************************************************************)
(* Matching rules: the selector paths and the rule that applies at a       *)
(* position of the expected request.                                       *)
(***************************************************************************)
EmptyRules == [path \in {} |-> EmptyMap]

matching_rules(request) ==
    IF "matching_rules" \in DOMAIN request THEN request.matching_rules ELSE EmptyRules

Token(name, star) == [name |-> name, star |-> star]

\* The first index from i on where s has a character of stops.
RECURSIVE scan_until(_, _, _)
scan_until(s, i, stops) ==
    IF i > Len(s) \/ SubSeq(s, i, i) \in stops THEN i
    ELSE scan_until(s, i + 1, stops)

\* The segments of a selector: `$`, `.name`, `['name']`, `[i]`, `[*]`, `.*`.
RECURSIVE parse_path_exp(_, _)
parse_path_exp(s, i) ==
    IF i > Len(s) THEN << >>
    ELSE LET ch == SubSeq(s, i, i)
         IN CASE ch = "$" -> << Token("$", FALSE) >> \o parse_path_exp(s, i + 1)
              [] ch = "." ->
                    LET j == scan_until(s, i + 1, { ".", "[" })
                        name == SubSeq(s, i + 1, j - 1)
                    IN << Token(name, name = "*") >> \o parse_path_exp(s, j)
              [] ch = "[" ->
                    LET j == scan_until(s, i + 1, { "]" })
                        inner == SubSeq(s, i + 1, j - 1)
                    IN (IF Len(inner) >= 2 /\ SubSeq(inner, 1, 1) = "'"
                        THEN << Token(SubSeq(inner, 2, Len(inner) - 1), FALSE) >>
                        ELSE << Token(inner, inner = "*") >>)
                       \o parse_path_exp(s, j + 1)
              [] OTHER -> parse_path_exp(s, i + 1)

\* A selector applies at the positions it reaches.
path_exp_applies(exp, position) ==
    /\ Len(exp) = Len(position)
    /\ \A i \in 1 .. Len(exp) : exp[i].star \/ exp[i].name = position[i]

\* Specificity: 2 for an exact segment, 1 for a wildcard.
score(exp) == [i \in 1 .. Len(exp) |-> IF exp[i].star THEN 1 ELSE 2]

\* Score vectors of one length, compared lexicographically.
more_specific(a, b) ==
    \E i \in 1 .. Len(a) :
        /\ \A j \in 1 .. (i - 1) : a[j] = b[j]
        /\ a[i] > b[i]

select_best_rule(rules, position) ==
    LET paths == { p \in DOMAIN rules : path_exp_applies(parse_path_exp(p, 1), position) }
        best == { p \in paths :
                    \A q \in paths : ~more_specific(score(parse_path_exp(q, 1)),
                                                    score(parse_path_exp(p, 1))) }
    IN IF paths = {} THEN None ELSE Some(rules[CHOOSE p \in best : TRUE])

rule_attribute(rule, name) ==
    IF rule = None THEN None
    ELSE LET r == CHOOSE x \in rule : TRUE
         IN IF name \in DOMAIN r THEN Some(r[name]) ELSE None

contains(s, literal) ==
    \E i \in 1 .. (Len(s) - Len(literal) + 1) : SubSeq(s, i, i + Len(literal) - 1) = literal

\* Regex::is_match for the regexes of the model: a literal, or a literal
\* followed by `.*`, found anywhere in the value.
regex_is_match(regex, value) ==
    IF Len(regex) >= 2 /\ SubSeq(regex, Len(regex) - 1, Len(regex)) = ".*"
    THEN contains(value, SubSeq(regex, 1, Len(regex) - 2))
    ELSE contains(value, regex)

\* The number a decimal string of one digit stands for.
parse_usize(s) == { n \in 0 .. 9 : ToString(n) = s }

(***************************************************************************)
(* pact_matching::match_request(expected, actual): the list of mismatches  *)
(* in the order method, path, query, headers, body.                        *)
(***************************************************************************)
Mismatch(type, key) == [type |-> type, key |-> key]

mismatch_type(m) == m.type

match_method(expected, actual) ==
    IF to_uppercase(expected.method) = to_uppercase(actual.method) THEN << >>
    ELSE << Mismatch("MethodMismatch", "") >>

match_path(expected, actual) ==
    IF expected.path = actual.path THEN << >>
    ELSE << Mismatch("PathMismatch", "") >>

OptMap(opt) == IF opt = None THEN EmptyMap ELSE CHOOSE m \in opt : TRUE

RECURSIVE QueryMismatches(_, _, _)
QueryMismatches(keys, e, a) ==
    IF keys = << >> THEN << >>
    ELSE LET k == Head(keys)
             bad == \/ k \notin DOMAIN e
                    \/ k \notin DOMAIN a
                    \/ e[k] # a[k]
         IN (IF bad THEN << Mismatch("QueryMismatch", k) >> ELSE << >>)
            \o QueryMismatches(Tail(keys), e, a)

match_query(expected, actual) ==
    LET e == OptMap(expected.query)
        a == OptMap(actual.query)
    IN QueryMismatches(SelectKeys(KeyOrder, DOMAIN e \cup DOMAIN a), e, a)

\* The value of the header called name, compared without case.
HeaderValues(map, name) ==
    { map[k] : k \in { k \in DOMAIN map : to_lowercase(k) = to_lowercase(name) } }

\* A header is compared by the rule at `$.headers.<name>`, by equality if
\* there is none.
header_matches(rule, expected, actual) ==
    IF rule_attribute(rule, "match") = Some("regex")
    THEN \E regex \in rule_attribute(rule, "regex") :
            \E value \in actual : regex_is_match(regex, value)
    ELSE IF rule_attribute(rule, "match") = Some("type") THEN actual # {}
    ELSE expected \in actual

RECURSIVE HeaderMismatches(_, _, _, _)
HeaderMismatches(keys, e, a, rules) ==
    IF keys = << >> THEN << >>
    ELSE LET k == Head(keys)
         IN (IF header_matches(select_best_rule(rules, << "$", "headers", k >>),
                               e[k], HeaderValues(a, k))
             THEN << >>
             ELSE << Mismatch("HeaderMismatch", k) >>)
            \o HeaderMismatches(Tail(keys), e, a, rules)

match_headers(expected, actual) ==
    LET e == OptMap(expected.headers)
        a == OptMap(actual.headers)
    IN HeaderMismatches(KeysOf(e), e, a, matching_rules(expected))

\* The content type of the header, detected from the body if there is none.
content_type(req) ==
    LET v == HeaderValues(OptMap(req.headers), "Content-Type")
    IN IF v # {} THEN CHOOSE x \in v : TRUE
       ELSE IF req.body.kind = "Present" /\ parse_json(req.body.bytes) # None
            THEN "application/json"
       ELSE "text/plain"

is_json(mime) == Len(mime) >= 16 /\ SubSeq(mime, 1, 16) = "application/json"

RECURSIVE compare_json(_, _, _, _, _, _)
RECURSIVE compare_fields(_, _, _, _, _, _, _)
RECURSIVE compare_items(_, _, _, _, _, _, _)

\* The fields of the expected object, each against the field of the actual.
compare_fields(keys, path, position, expected, actual, rules, by_type) ==
    IF keys = << >> THEN << >>
    ELSE LET key == Head(keys)
             field == path \o "." \o key
         IN (IF key \in DOMAIN actual
             THEN compare_json(field, Append(position, key),
                               expected[key], actual[key], rules, by_type)
             ELSE << Mismatch("BodyMismatch", field) >>)
            \o compare_fields(Tail(keys), path, position, expected, actual, rules, by_type)

\* The items of the actual array from index i on, each against the expected
\* item of the same index, or against the single example a `min` rule has.
compare_items(i, path, position, expected, actual, rules, by_type) ==
    IF i > Len(actual) \/ expected = << >> THEN << >>
    ELSE LET item == path \o "[" \o ToString(i - 1) \o "]"
             example == IF i <= Len(expected) THEN expected[i] ELSE expected[1]
         IN compare_json(item, Append(position, ToString(i - 1)), example, actual[i], rules,
                         by_type)
            \o compare_items(i + 1, path, position, expected, actual, rules, by_type)

\* Mutant: an array of exactly the minimum length is too short.
min_length_exceeded(min, array) == \A n \in min : Len(array) > n

\* min=N: the array has at least N items.
min_length_reached(min, array) == \A n \in min : Len(array) >= n

\* A node is compared by the rule at its position; with no rule there it is
\* compared by type if its parent was, by equality otherwise.
compare_json(path, position, expected, actual, rules, inherited) ==
    LET rule == select_best_rule(rules, position)
        min == UNION { parse_usize(s) : s \in rule_attribute(rule, "min") }
        by_type == IF rule = None THEN inherited
                   ELSE rule_attribute(rule, "match") = Some("type") \/ min # {}
    IN IF rule_attribute(rule, "match") = Some("regex")
       THEN IF /\ actual.t = "string"
               /\ \E regex \in rule_attribute(rule, "regex") :
                     regex_is_match(regex, actual.string)
            THEN << >>
            ELSE << Mismatch("BodyMismatch", path) >>
       ELSE IF expected.t # actual.t THEN << Mismatch("BodyMismatch", path) >>
       ELSE CASE expected.t = "object" ->
                    IF ~by_type /\ ~(DOMAIN actual.object \subseteq DOMAIN expected.object)
                    THEN << Mismatch("BodyMismatch", path) >>
                    ELSE compare_fields(KeysOf(expected.object), path, position,
                                        expected.object, actual.object, rules, by_type)
              [] expected.t = "array" ->
                    IF min # {}
                    THEN IF ~min_length_reached(min, actual.array)
                         THEN << Mismatch("BodyMismatch", path) >>
                         ELSE compare_items(1, path, position, SubSeq(expected.array, 1, 1),
                                            actual.array, rules, by_type)
                    ELSE IF ~by_type /\ Len(expected.array) # Len(actual.array)
                         THEN << Mismatch("BodyMismatch", path) >>
                         ELSE compare_items(1, path, position, expected.array,
                                            actual.array, rules, by_type)
              [] OTHER ->
                    IF by_type \/ expected = actual THEN << >>
                    ELSE << Mismatch("BodyMismatch", path) >>

match_body(expected, actual) ==
    IF expected.body.kind = "Missing" THEN << >>
    ELSE IF content_type(expected) # content_type(actual)
         THEN << Mismatch("BodyTypeMismatch", "") >>
    ELSE IF /\ is_json(content_type(expected))
            /\ expected.body.kind = "Present" /\ parse_json(expected.body.bytes) # None
            /\ actual.body.kind = "Present" /\ parse_json(actual.body.bytes) # None
         THEN compare_json("$.body", << "$", "body" >>,
                           CHOOSE json \in parse_json(expected.body.bytes) : TRUE,
                           CHOOSE json \in parse_json(actual.body.bytes) : TRUE,
                           matching_rules(expected), FALSE)
    ELSE IF expected.body = actual.body THEN << >>
    ELSE << Mismatch("BodyMismatch", "$.body") >>

pact_matching_match_request(expected, actual) ==
    match_method(expected, actual) \o match_path(expected, actual)
    \o match_query(expected, actual) \o match_headers(expected, actual)
    \o match_body(expected, actual)

(***************************************************************************)
(* Result<T, MockRequestError>                                             *)
(***************************************************************************)
Ok(v) == [ok |-> TRUE, value |-> v, error |-> ""]
Err(e) == [ok |-> FALSE, value |-> {}, error |-> e]

(***************************************************************************)
(* Translation of a hyper request into a pact Request.                     *)
(* A hyper Uri holds an optional path-and-query; the query is an optional  *)
(* sequence of <<key, value>> pairs.  A hyper HeaderMap is a function from *)
(* lower-case names to the non-empty sequence of values of that name.      *)
(***************************************************************************)
NonAsciiValue == "<non-ascii bytes>"

extract_path(uri) ==
    IF uri.path_and_query = None THEN "/"
    ELSE (CHOOSE pq \in uri.path_and_query : TRUE).path

RECURSIVE QueryValues(_, _)
QueryValues(pairs, key) ==
    IF pairs = << >> THEN << >>
    ELSE (IF Head(pairs)[1] = key THEN << Head(pairs)[2] >> ELSE << >>)
         \o QueryValues(Tail(pairs), key)

parse_query_string(pairs) ==
    IF pairs = << >> THEN None
    ELSE Some([k \in { pairs[i][1] : i \in DOMAIN pairs } |-> QueryValues(pairs, k)])

extract_query_string(uri) ==
    IF uri.path_and_query = None THEN None
    ELSE LET pq == CHOOSE x \in uri.path_and_query : TRUE
         IN IF pq.query = None THEN None
            ELSE parse_query_string(CHOOSE q \in pq.query : TRUE)

\* Mutant: every value of a header is decoded, not only the first one.
extract_headers_every_value(headers) ==
    IF Cardinality(DOMAIN headers) > 0
    THEN IF \E name \in DOMAIN headers :
                \E i \in DOMAIN headers[name] : headers[name][i] = NonAsciiValue
         THEN Err("InvalidHeaderEncoding")
         ELSE Ok(Some([name \in DOMAIN headers |-> Head(headers[name])]))
    ELSE Ok(None)

extract_headers(headers) ==
    IF Cardinality(DOMAIN headers) > 0
    THEN IF \E name \in DOMAIN headers : Head(headers[name]) = NonAsciiValue
         THEN Err("InvalidHeaderEncoding")
         ELSE Ok(Some([name \in DOMAIN headers |-> Head(headers[name])]))
    ELSE Ok(None)

extract_body(chunk) ==
    IF chunk # "" THEN Present(chunk) ELSE Empty

hyper_request_to_pact_request(req) ==
    LET method == req.method
        path == extract_path(req.uri)
        query == extract_query_string(req.uri)
        headers == extract_headers(req.headers)
    IN IF ~headers.ok THEN Err(headers.error)
       ELSE IF ~req.body.ok THEN Err("RequestBodyError")
       ELSE Ok([method |-> method, path |-> path, query |-> query,
                headers |-> headers.value, body |-> extract_body(req.body.bytes)])

(***************************************************************************)
(* Dispatch: server.rs match_request.                                      *)
(***************************************************************************)
RequestMatch(i) == [tag |-> "RequestMatch", interaction |-> i]
RequestMismatch(i, ms) == [tag |-> "RequestMismatch", interaction |-> i, mismatches |-> ms]
RequestNotFound(r) == [tag |-> "RequestNotFound", request |-> r]

\* Mutant: a PathMismatch is not looked for.
method_mismatch_only(mismatches) ==
    \E n \in DOMAIN mismatches : mismatch_type(mismatches[n]) = "MethodMismatch"

method_or_path_mismatch(mismatches) ==
    \E n \in DOMAIN mismatches :
        \/ mismatch_type(mismatches[n]) = "MethodMismatch"
        \/ mismatch_type(mismatches[n]) = "PathMismatch"

\* Mutant: the mismatches are counted without unique().
count_all(mismatches) == Len(mismatches)

\* The key of the ranking: the number of distinct mismatch types of a result.
unique_count(mismatches) ==
    Cardinality({ mismatch_type(mismatches[n]) : n \in DOMAIN mismatches })

\* Mutant: res goes before the results of equal key (an unstable sort).
RECURSIVE sort_insert_before_equal(_, _)
sort_insert_before_equal(sorted, res) ==
    IF sorted = << >> THEN << res >>
    ELSE IF Cardinality({ Head(sorted)[2][n].type : n \in DOMAIN Head(sorted)[2] })
              < Cardinality({ res[2][n].type : n \in DOMAIN res[2] })
         THEN << Head(sorted) >> \o sort_insert_before_equal(Tail(sorted), res)
         ELSE << res >> \o sorted

\* One step of the stable sort: res goes after every result whose key is not larger.
RECURSIVE sort_insert(_, _)
sort_insert(sorted, res) ==
    IF sorted = << >> THEN << res >>
    ELSE IF unique_count(Head(sorted)[2]) <= unique_count(res[2])
         THEN << Head(sorted) >> \o sort_insert(Tail(sorted), res)
         ELSE << res >> \o sorted

\* Mutant: the results are sorted from the last to the first.
RECURSIVE sorted_by_reversed(_)
sorted_by_reversed(results) ==
    IF results = << >> THEN << >>
    ELSE sort_insert(sorted_by_reversed(Tail(results)), Head(results))

RECURSIVE sorted_by(_)
sorted_by(results) ==
    IF results = << >> THEN << >>
    ELSE sort_insert(sorted_by(SubSeq(results, 1, Len(results) - 1)),
                     results[Len(results)])

match_results(req, interactions) ==
    sorted_by([n \in DOMAIN interactions |->
                 << interactions[n],
                    pact_matching_match_request(interactions[n].request, req) >>])

\* Mutant: a MethodMismatch or PathMismatch of any result gives RequestNotFound.
match_request_any_not_found(req, interactions) ==
    LET results == match_results(req, interactions)
    IN IF results # << >>
       THEN LET res == Head(results)
            IN IF res[2] = << >> THEN RequestMatch(res[1])
               ELSE IF \E n \in DOMAIN results : method_or_path_mismatch(results[n][2])
               THEN RequestNotFound(req)
               ELSE RequestMismatch(res[1], res[2])
       ELSE RequestNotFound(req)

\* Mutant: a RequestMismatch carries the first mismatch only.
match_request_first_mismatch(req, interactions) ==
    LET results == match_results(req, interactions)
    IN IF results # << >>
       THEN LET res == Head(results)
            IN IF res[2] = << >> THEN RequestMatch(res[1])
               ELSE IF method_or_path_mismatch(res[2]) THEN RequestNotFound(req)
               ELSE RequestMismatch(res[1], << Head(res[2]) >>)
       ELSE RequestNotFound(req)

match_request(req, interactions) ==
    LET results == match_results(req, interactions)
    IN IF results # << >>
       THEN LET res == Head(results)
            IN IF res[2] = << >> THEN RequestMatch(res[1])
               ELSE IF method_or_path_mismatch(res[2]) THEN RequestNotFound(req)
               ELSE RequestMismatch(res[1], res[2])
       ELSE RequestNotFound(req)

(***************************************************************************)
(* Building the hyper response.                                            *)
(***************************************************************************)
HyperResponse(status, headers, body) ==
    [status |-> status, headers |-> headers, body |-> body]

\* Mutant: the value is added to the values the name already has.
header_insert_keeping(hyper_headers, name, value) ==
    [n \in DOMAIN hyper_headers \cup {name} |->
        IF n = name
        THEN (IF n \in DOMAIN hyper_headers THEN hyper_headers[n] ELSE << >>) \o << value >>
        ELSE hyper_headers[n]]

\* HeaderMap::insert: the values of the name are replaced by the one value.
header_insert(hyper_headers, name, value) ==
    [n \in DOMAIN hyper_headers \cup {name} |->
        IF n = name THEN << value >> ELSE hyper_headers[n]]

\* ResponseBuilder::header: the value is added to the values of the name.
header_append(hyper_headers, name, value) ==
    [n \in DOMAIN hyper_headers \cup {name} |->
        IF n = name
        THEN (IF n \in DOMAIN hyper_headers THEN hyper_headers[n] ELSE << >>) \o << value >>
        ELSE hyper_headers[n]]

\* HeaderName::from_bytes: a valid name, in lower case.
HeaderName_from_bytes(k) ==
    IF k \in InvalidHeaderNames THEN Err("InvalidHeaderName") ELSE Ok(to_lowercase(k))

\* str::parse::<HeaderValue>
HeaderValue_parse(v) ==
    IF v \in InvalidHeaderValues THEN Err("InvalidHeaderValue") ELSE Ok(v)

\* The for loop of set_hyper_headers over the keys of header_map in the
\* order the HashMap yields them.
RECURSIVE set_hyper_headers_loop(_, _, _)
set_hyper_headers_loop(hyper_headers, header_map, order) ==
    IF order = << >> THEN Ok(hyper_headers)
    ELSE LET k == Head(order)
             name == HeaderName_from_bytes(k)
             value == HeaderValue_parse(header_map[k])
         IN IF ~name.ok THEN Err("ResponseHeaderEncodingError")
            ELSE IF ~value.ok THEN Err("ResponseHeaderEncodingError")
            ELSE set_hyper_headers_loop(
                     header_insert(hyper_headers, name.value, value.value),
                     header_map, Tail(order))

set_hyper_headers(hyper_headers, headers, order) ==
    IF headers # None
    THEN set_hyper_headers_loop(hyper_headers, OptMap(headers), order)
    ELSE Ok(hyper_headers)

\* pact_matching::generate_response of a response without generators.
generate_response(response) ==
    [status |-> response.status, headers |-> response.headers, body |-> response.body]

match_result_to_hyper_response(match_result, order) ==
    IF match_result.tag = "RequestMatch"
    THEN LET response == generate_response(match_result.interaction.response)
             builder == header_append(EmptyMap, "access-control-allow-origin", "*")
             set == set_hyper_headers(builder, response.headers, order)
         IN IF ~set.ok THEN Err(set.error)
            ELSE Ok(HyperResponse(response.status, set.value,
                       IF response.body.kind = "Present" THEN response.body.bytes ELSE ""))
    ELSE Ok(HyperResponse(200, EmptyMap, "Hello"))

handle_mock_request_error(result) ==
    IF result.ok THEN result.value
    ELSE CASE result.error = "InvalidHeaderEncoding" ->
                HyperResponse(400, EmptyMap, "Found an invalid header encoding")
           [] result.error = "RequestBodyError" ->
                HyperResponse(500, EmptyMap, "Could not process request body")
           [] result.error = "ResponseBodyError" ->
                HyperResponse(500, EmptyMap, "Could not process response body")
           [] result.error = "ResponseHeaderEncodingError" ->
                HyperResponse(500, EmptyMap, "Could not set response header")

\* The orders in which a HashMap can yield the keys of its entries.
IterationOrders(keys) ==
    { order \in [1 .. Cardinality(keys) -> keys] :
        \A i, j \in DOMAIN order : i # j => order[i] # order[j] }

(***************************************************************************)
(* The interactions a pact is drawn from and the requests a client sends.  *)
(***************************************************************************)
PactRequest(method, path, query, headers, body) ==
    [method |-> method, path |-> path, query |-> query, headers |-> headers, body |-> body]

PactResponse(status, headers, body) ==
    [status |-> status, headers |-> headers, body |-> body]

Interaction(description, request, response) ==
    [description |-> description, request |-> request, response |-> response]

Interactions ==
    { Interaction("plain",
          PactRequest("GET", "/a", None, None, Missing),
          PactResponse(200, None, Present("ok"))),
      Interaction("two headers",
          PactRequest("GET", "/a", None, Some(("X-A" :> "1") @@ ("X-B" :> "1")), Missing),
          PactResponse(200, Some("Content-Type" :> "text/plain"), Missing)),
      Interaction("header and body",
          PactRequest("GET", "/a", None, Some("X-A" :> "1"), Present("x")),
          PactResponse(201, Some("Access-Control-Allow-Origin" :> "http://example.org"),
                       Present("created"))),
      Interaction("root",
          PactRequest("GET", "/", None, None, Missing),
          PactResponse(200, Some(("ACCESS-CONTROL-ALLOW-ORIGIN" :> "a")
                                 @@ ("access-control-allow-origin" :> "b")), Empty)),
      Interaction("query",
          PactRequest("GET", "/a", Some("q" :> << "1", "2" >>), None, Missing),
          PactResponse(200, Some(("X-A" :> "bad\nvalue") @@ ("X-B" :> "1")), Present("ok"))) }

Uri(path, query) == [path_and_query |-> Some([path |-> path, query |-> query])]
NoPathUri == [path_and_query |-> None]
\* The request target of `OPTIONS * HTTP/1.1`: its path and query is `*`.
AsteriskUri == Uri("*", None)

HyperRequest(method, uri, headers, body) ==
    [method |-> method, uri |-> uri, headers |-> headers, body |-> body]

Chunk(bytes) == [ok |-> TRUE, bytes |-> bytes]
BodyReadError == [ok |-> FALSE, bytes |-> ""]

HyperRequests ==
    { HyperRequest("GET", Uri("/a", None),
                   ("x-a" :> << "1" >>) @@ ("x-b" :> << "1" >>), Chunk("x")),
      HyperRequest("GET", Uri("/a", None),
                   ("x-a" :> << "2" >>) @@ ("x-b" :> << "2", NonAsciiValue >>), Chunk("y")),
      HyperRequest("POST", Uri("/b", None), "x-a" :> << "1" >>, Chunk("x")),
      HyperRequest("GET", NoPathUri, EmptyMap, Chunk("")),
      HyperRequest("get", Uri("/a", Some(<< << "q", "1" >>, << "q", "2" >> >>)),
                   EmptyMap, Chunk("")),
      HyperRequest("GET", Uri("/a", Some(<< >>)), "x-a" :> << NonAsciiValue >>, BodyReadError),
      HyperRequest("GET", Uri("/a", None), "x-a" :> << "1" >>, BodyReadError),
      HyperRequest("OPTIONS", AsteriskUri, EmptyMap, Chunk("")) }

SeqsUpTo(S, n) == UNION { [1 .. m -> S] : m \in 0 .. n }

Pacts == SeqsUpTo(Interactions, MaxInteractions)

\* The pacts the running server of the model is started with.
ServedPacts == SeqsUpTo(Interactions, MaxServed)

(***************************************************************************)
(* The pact broker client: pact_broker.rs.                                 *)
(* The text of a URL or of a href is a sequence of atoms, pieces of text.  *)
(***************************************************************************)
RECURSIVE Str(_)
Str(atoms) == IF atoms = << >> THEN "" ELSE Head(atoms) \o Str(Tail(atoms))

\* The atoms made of word characters only: the regex \w+ matches them.
WordAtoms == {"a", "b", "provider", "happy_provider"}

\* The atoms that are a scheme and an authority, a query, an absolute path.
Origins == {"http://localhost", "http://broker"}
QueryAtoms == {"?q=1"}
SlashAtoms == {"/", "/pb", "/pacts/a", "/pacts/b", "/pacts/provider/", "/pacts/", "/latest"}

\* The part of a reference before its query, and its query.
RECURSIVE PathPart(_)
PathPart(atoms) ==
    IF atoms = << >> \/ Head(atoms) \in QueryAtoms THEN << >>
    ELSE << Head(atoms) >> \o PathPart(Tail(atoms))

QueryPart(atoms) == SubSeq(atoms, Len(PathPart(atoms)) + 1, Len(atoms))

\* Url::parse writes the characters `{` and `}` of a path percent-encoded.
percent_encode(atom) ==
    CASE atom = "{" -> "%7B"
      [] atom = "}" -> "%7D"
      [] OTHER -> atom

Url(origin, path, query) == [origin |-> origin, path |-> path, query |-> query]

EncodedPath(atoms) == [i \in DOMAIN PathPart(atoms) |-> percent_encode(PathPart(atoms)[i])]

Url_parse(input) ==
    IF input # << >> /\ Head(input) \in Origins
    THEN Ok(Url(Head(input), EncodedPath(Tail(input)), QueryPart(input)))
    ELSE Err("relative URL without a base")

\* Url::join: an absolute reference replaces the base; a reference that is
\* an absolute path keeps the origin of the base; a relative reference
\* replaces the last segment of the path of the base.
Url_join(base, input) ==
    IF input = << >> THEN Ok(base)
    ELSE IF Head(input) \in Origins THEN Url_parse(input)
    ELSE IF Head(input) \in SlashAtoms \/ Head(input) \in QueryAtoms
         THEN Ok(Url(base.origin,
                     IF Head(input) \in QueryAtoms THEN base.path ELSE EncodedPath(input),
                     QueryPart(input)))
    ELSE Ok(Url(base.origin,
                SubSeq(base.path, 1, Len(base.path) - 1)
                    \o << "/" \o percent_encode(Head(input)) >> \o EncodedPath(Tail(input)),
                QueryPart(input)))

\* Url::path: the path of a URL without its query; `/` when it is empty.
Url_path(url) == IF url.path = << >> THEN << "/" >> ELSE url.path

\* provider_client::join_paths: the base without its trailing slash, then
\* the path, which starts with one slash.
join_paths(base, path) ==
    (IF base # << >> /\ base[Len(base)] = "/" THEN SubSeq(base, 1, Len(base) - 1) ELSE base)
        \o path

(***************************************************************************)
(* Reading a serde_json::Value.                                            *)
(***************************************************************************)
\* Value::get with a string index.
json_get(json, key) ==
    IF json.t = "object" /\ key \in DOMAIN json.object THEN Some(json.object[key]) ELSE None

\* The text serde_json writes for a value.
json_to_string(json) ==
    CASE json.t = "string" -> << "\"" >> \o json.string \o << "\"" >>
      [] json.t = "bool" -> IF json.bool THEN << "true" >> ELSE << "false" >>
      [] json.t = "array" -> << "[..]" >>
      [] json.t = "object" -> << "{..}" >>

is_true(object, field) ==
    IF field \in DOMAIN object
    THEN LET json == object[field] IN IF json.t = "bool" THEN json.bool ELSE FALSE
    ELSE FALSE

as_string(json) == IF json.t = "string" THEN json.string ELSE json_to_string(json)

find_entry(map, key) ==
    LET found == { k \in DOMAIN map : to_lowercase(k) = to_lowercase(key) }
    IN IF found = {} THEN None ELSE Some(map[CHOOSE k \in found : TRUE])

(***************************************************************************)
(* Responses of the broker and their classification.                       *)
(***************************************************************************)
\* A media type: the subtype is the sequence of its parts between `+`.
Mime(top, sub, params) == [top |-> top, sub |-> sub, params |-> params]

RECURSIVE JoinPlus(_)
JoinPlus(parts) ==
    IF Len(parts) = 1 THEN Head(parts) ELSE Head(parts) \o "+" \o JoinPlus(Tail(parts))

MimeStr(mime) == mime.top \o "/" \o JoinPlus(mime.sub) \o mime.params

\* A response has a status, an optional Content-Type and a body, which is
\* absent, a text serde_json rejects or the text of a JSON value.
Response(status, content, body) ==
    [sent |-> TRUE, status |-> status, content_type |-> content, body |-> body]
TransportFailure ==
    [sent |-> FALSE, status |-> 0, content_type |-> None, body |-> [kind |-> "absent"]]

NoBody == [kind |-> "absent"]
Unparseable == [kind |-> "text"]
JsonBody(json) == [kind |-> "json", json |-> json]

broker_content_type(response) ==
    IF response.content_type = None THEN "text/plain"
    ELSE MimeStr(CHOOSE m \in response.content_type : TRUE)

\* Mutant: every subtype that ends in +json is taken for JSON.
json_content_type_any_suffix(response) ==
    \E mime \in response.content_type :
        /\ mime.top = "application"
        /\ mime.sub[Len(mime.sub)] = "json"

json_content_type(response) ==
    \E mime \in response.content_type :
        /\ mime.top = "application"
        /\ \/ mime.sub = << "json" >>
           \/ mime.sub = << "hal", "json" >>

is_success(status) == status >= 200 /\ status < 300

StatusText(status) ==
    CASE status = 200 -> "200 OK"
      [] status = 204 -> "204 No Content"
      [] status = 301 -> "301 Moved Permanently"
      [] status = 404 -> "404 Not Found"
      [] status = 500 -> "500 Internal Server Error"

PactBrokerError(kind, message) == [kind |-> kind, message |-> message]

(***************************************************************************)
(* Links and the expansion of templated links.                             *)
(***************************************************************************)
Link(name, href, templated) == [name |-> name, href |-> href, templated |-> templated]

Link_from_json(link, link_data) ==
    Link(link,
         IF find_entry(link_data, "href") = None THEN None
         ELSE Some(as_string(CHOOSE href \in find_entry(link_data, "href") : TRUE)),
         is_true(link_data, "templated"))

\* The longest prefix of atoms that \w+ matches.
RECURSIVE WordRun(_)
WordRun(atoms) ==
    IF atoms = << >> \/ Head(atoms) \notin WordAtoms THEN << >>
    ELSE << Head(atoms) >> \o WordRun(Tail(atoms))

\* Mutant: a token without a mapped value is dropped from the text.
RECURSIVE replace_all_dropping(_, _)
replace_all_dropping(href, values) ==
    IF href = << >> THEN << >>
    ELSE LET run == WordRun(Tail(href))
             rest == SubSeq(href, Len(run) + 2, Len(href))
         IN IF Head(href) = "{" /\ run # << >> /\ rest # << >> /\ Head(rest) = "}"
            THEN (IF Str(run) \in DOMAIN values THEN << values[Str(run)] >> ELSE << >>)
                     \o replace_all_dropping(Tail(rest), values)
            ELSE << Head(href) >> \o replace_all_dropping(Tail(href), values)

\* Regex \{(\w+)\} replace_all: the matches are found from left to right and
\* do not overlap; the text put in place of a match is not searched again.
RECURSIVE replace_all(_, _)
replace_all(href, values) ==
    IF href = << >> THEN << >>
    ELSE LET run == WordRun(Tail(href))
             rest == SubSeq(href, Len(run) + 2, Len(href))
         IN IF Head(href) = "{" /\ run # << >> /\ rest # << >> /\ Head(rest) = "}"
            THEN (IF Str(run) \in DOMAIN values
                  THEN << values[Str(run)] >>
                  ELSE << "{" >> \o run \o << "}" >>)
                     \o replace_all(Tail(rest), values)
            ELSE << Head(href) >> \o replace_all(Tail(href), values)

parse_link_url(client, link, values) ==
    IF link.href = None
    THEN Err(PactBrokerError("LinkError",
             "Expected a HAL+JSON response from the pact broker, but got a link with no HREF. URL: '"
                 \o Str(client.url) \o "', LINK: '" \o link.name \o "'"))
    ELSE Ok(replace_all(CHOOSE href \in link.href : TRUE, values))

(***************************************************************************)
(* State.                                                                  *)
(***************************************************************************)
VARIABLES
    pact,          \* the interactions of the Arc<Pact> given to start()
    handlers,      \* the request futures of the service, one per connection
    dispatch,      \* the request and the result of a call of match_request
    matches,       \* the recorded (request, match result) entries
    verification,  \* outcome of the verify command
    pact_file,     \* the pact file written by the verify command
    server,        \* the server future returned by start()
    broker,        \* the pact broker: its URL and the responses it gives
    hal,           \* the HALClient and the position of fetch_pacts_from_broker
    template,      \* a link, a value map and the result of parse_link_url
    pattern,       \* a pattern, a selector path, the rules before and after extraction
    builder,       \* the request a RequestBuilder builds and the requests matched with it
    loaded,        \* a pact file, the Pact read from it and the JSON written back
    logger,        \* the thread-local LOGGER, the applied logger and the last status
    last_error,    \* the thread-local LAST_ERROR and the buffer of the caller
    args           \* a command-line value and the result of its validator

vars == << pact, handlers, dispatch, matches, verification, pact_file, server,
           broker, hal, template, pattern, builder, loaded, logger, last_error, args >>

Handlers == 1 .. NumHandlers

Idle == [pc |-> "idle", hyper |-> None, request |-> None,
         match_result |-> None, response |-> None]

\* The server future before the shutdown signal: it accepts connections.
\* in_flight records the requests that were in flight when the signal fired.
Serving == [state |-> "serving", in_flight |-> {}]

Init ==
    /\ logger = None
    /\ last_error = None
    /\ args = None
    /\ pact \in ServedPacts
    /\ handlers = [h \in Handlers |-> Idle]
    /\ dispatch = None
    /\ matches = << >>
    /\ verification = "none"
    /\ pact_file = None
    /\ server = Serving
    /\ broker = None
    /\ hal = None
    /\ template = None
    /\ pattern = None
    /\ builder = None
    /\ loaded = None

(***************************************************************************)
(* service_fn: the service is called with a request; the future of         *)
(* handle_request waits for the body of the request.                       *)
(***************************************************************************)
Receive(h, req) ==
    /\ server.state = "serving"
    /\ handlers[h].pc = "idle"
    /\ handlers' = [handlers EXCEPT ![h] = [Idle EXCEPT !.pc = "reading", !.hyper = Some(req)]]
    /\ UNCHANGED << pact, dispatch, matches, verification, pact_file, server, broker, hal, template,
                    pattern, builder, loaded, logger, last_error, args >>

(***************************************************************************)
(* handle_request followed by handle_mock_request_error: the body has been *)
(* read, the request is dispatched and the response is built.              *)
(***************************************************************************)
ResponseHeaderKeys(match_result) ==
    IF match_result.tag = "RequestMatch"
    THEN DOMAIN OptMap(generate_response(match_result.interaction.response).headers)
    ELSE {}

\* StatusCode::from_u16, which Builder::status applies to the status of the
\* response: a status below 100 or above 599 is an error the builder keeps.
StatusCode_from_u16(status) ==
    IF status < 100 \/ status >= 600 THEN Err("InvalidStatusCode") ELSE Ok(status)

\* Builder::headers_mut after Builder::status: None when the builder keeps
\* an error.  set_hyper_headers unwraps it.
headers_mut(status) ==
    IF StatusCode_from_u16(status).ok THEN Some(EmptyMap) ELSE None

\* The response handle_request and handle_mock_request_error build for a
\* match result, a set of one element; None when the future panics, which it
\* does when set_hyper_headers unwraps None.
built_response(match_result, order) ==
    IF /\ match_result.tag = "RequestMatch"
       /\ headers_mut(generate_response(match_result.interaction.response).status) = None
    THEN None
    ELSE Some(handle_mock_request_error(match_result_to_hyper_response(match_result, order)))

\* The state in which handle_request leaves the future h after dispatch.
dispatched(h, request, match_result, order) ==
    [handlers[h] EXCEPT
        !.pc = IF built_response(match_result, order) = None THEN "panicked" ELSE "responded",
        !.request = Some(request),
        !.match_result = Some(match_result),
        !.response = built_response(match_result, order)]

\* The states in which handle_request can leave the future h, one for each
\* order in which the headers of the response can be iterated.
handled(h) ==
    LET req == hyper_request_to_pact_request(CHOOSE r \in handlers[h].hyper : TRUE)
    IN IF req.ok
       THEN LET match_result == match_request(req.value, pact)
            IN { dispatched(h, req.value, match_result, order) :
                   order \in IterationOrders(ResponseHeaderKeys(match_result)) }
       ELSE { [handlers[h] EXCEPT
                  !.pc = "responded",
                  !.response = Some(handle_mock_request_error(Err(req.error)))] }

\* Mutant: an interaction is served once, the pact loses it when it matched.
handle_request_consuming(h) ==
    /\ handlers[h].pc = "reading"
    /\ \E next \in handled(h) :
          /\ handlers' = [handlers EXCEPT ![h] = next]
          /\ pact' = IF \E m \in next.match_result : m.tag = "RequestMatch"
                     THEN SelectSeq(pact,
                              LAMBDA i : \A m \in next.match_result : i # m.interaction)
                     ELSE pact
    /\ UNCHANGED << dispatch, matches, verification, pact_file, server, broker, hal, template,
                    pattern, builder, loaded, logger, last_error, args >>

handle_request(h) ==
    /\ handlers[h].pc = "reading"
    /\ \E next \in handled(h) : handlers' = [handlers EXCEPT ![h] = next]
    /\ UNCHANGED << pact, dispatch, matches, verification, pact_file, server, broker, hal, template,
                    pattern, builder, loaded, logger, last_error, args >>

\* The task of a future that panicked is dropped by the runtime: the
\* connection is closed and no response is written to it.
ConnectionDropped(h) ==
    /\ handlers[h].pc = "panicked"
    /\ handlers' = [handlers EXCEPT ![h] = Idle]
    /\ UNCHANGED << pact, dispatch, matches, verification, pact_file, server, broker, hal, template,
                    pattern, builder, loaded, logger, last_error, args >>

\* The response has been written to the connection.
SendResponse(h) ==
    /\ handlers[h].pc = "responded"
    /\ handlers' = [handlers EXCEPT ![h] = Idle]
    /\ UNCHANGED << pact, dispatch, matches, verification, pact_file, server, broker, hal, template,
                    pattern, builder, loaded, logger, last_error, args >>

(***************************************************************************)
(* with_graceful_shutdown: when the shutdown future resolves, the server   *)
(* stops accepting; the server future completes once the requests in       *)
(* flight have been answered.                                              *)
(***************************************************************************)
ShutdownSignal ==
    /\ server.state = "serving"
    /\ server' = [state |-> "draining",
                  in_flight |-> { h \in Handlers : handlers[h].pc # "idle" }]
    /\ UNCHANGED << pact, handlers, dispatch, matches, verification, pact_file, broker, hal, template,
                    pattern, builder, loaded, logger, last_error, args >>

\* Mutant: the server future completes without waiting for the requests in flight.
Complete_without_draining ==
    /\ server.state = "draining"
    /\ server' = [server EXCEPT !.state = "complete"]
    /\ UNCHANGED << pact, handlers, dispatch, matches, verification, pact_file, broker, hal, template,
                    pattern, builder, loaded, logger, last_error, args >>

Complete ==
    /\ server.state = "draining"
    /\ \A h \in Handlers : handlers[h].pc = "idle"
    /\ server' = [server EXCEPT !.state = "complete"]
    /\ UNCHANGED << pact, handlers, dispatch, matches, verification, pact_file, broker, hal, template,
                    pattern, builder, loaded, logger, last_error, args >>

Next ==
    \/ \E h \in Handlers, req \in HyperRequests : Receive(h, req)
    \/ \E h \in Handlers : handle_request(h)
    \/ \E h \in Handlers : SendResponse(h)
    \/ ShutdownSignal
    \/ Complete

Spec == Init /\ [][Next]_vars

\* The runtime polls every future that can make progress: the request
\* futures spawned by the server and the server future itself.  The first
\* conjunct is WF_vars(handle_request(h)) written out, with
\* ENABLED <<handle_request(h)>>_vars replaced by the predicate it is equal
\* to: handle_request(h) can act exactly when the future h is reading.
Fairness ==
    /\ \A h \in Handlers :
          \/ []<>(handlers[h].pc # "reading")
          \/ []<><<handle_request(h)>>_vars
    /\ \A h \in Handlers : WF_vars(SendResponse(h))
    /\ WF_vars(Complete)

SpecGraceful == Init /\ [][Next]_vars /\ Fairness

(***************************************************************************)
(* The dispatch alone: match_request applied to a request and to the       *)
(* interactions of a pact.                                                 *)
(***************************************************************************)
Requests ==
    { hyper_request_to_pact_request(r).value :
        r \in { r \in HyperRequests : hyper_request_to_pact_request(r).ok } }

Dispatch(req) ==
    /\ dispatch' = Some([request |-> req, result |-> match_request(req, pact)])
    /\ UNCHANGED << pact, handlers, matches, verification, pact_file, server, broker, hal, template,
                    pattern, builder, loaded, logger, last_error, args >>

InitDispatch ==
    /\ logger = None
    /\ last_error = None
    /\ args = None
    /\ pact \in Pacts
    /\ handlers = [h \in Handlers |-> Idle]
    /\ dispatch = None
    /\ matches = << >>
    /\ verification = "none"
    /\ pact_file = None
    /\ server = Serving
    /\ broker = None
    /\ hal = None
    /\ template = None
    /\ pattern = None
    /\ builder = None
    /\ loaded = None

NextDispatch == \E req \in Requests : Dispatch(req)

SpecDispatch == InitDispatch /\ [][NextDispatch]_vars

(***************************************************************************)
(* Verification of a mock server from its report.                          *)
(***************************************************************************)
\* Mutant: one matched interaction is enough.
some_matched(interactions, report) ==
    \E n \in DOMAIN interactions :
        \E e \in DOMAIN report :
            /\ report[e].result.tag = "RequestMatch"
            /\ report[e].result.interaction = interactions[n]

all_matched(interactions, report) ==
    \A n \in DOMAIN interactions :
        \E e \in DOMAIN report :
            /\ report[e].result.tag = "RequestMatch"
            /\ report[e].result.interaction = interactions[n]

no_unexpected(report) ==
    \A e \in DOMAIN report : report[e].result.tag # "RequestNotFound"

verify_mock_server ==
    /\ verification = "none"
    /\ LET ok == all_matched(pact, matches) /\ no_unexpected(matches)
       IN /\ verification' = IF ok THEN "ok" ELSE "failed"
          /\ pact_file' = IF ok THEN Some(pact) ELSE pact_file
    /\ UNCHANGED << pact, handlers, dispatch, matches, server, broker, hal, template,
                    pattern, builder, loaded, logger, last_error, args >>

\* The entries a recording server holds for the requests of the model.
ReportEntries(interactions) ==
    { [request |-> req, result |-> match_request(req, interactions)] : req \in Requests }

InitVerify ==
    /\ logger = None
    /\ last_error = None
    /\ args = None
    /\ pact \in Pacts
    /\ handlers = [h \in Handlers |-> Idle]
    /\ dispatch = None
    /\ matches \in SeqsUpTo(ReportEntries(pact), MaxReport)
    /\ verification = "none"
    /\ pact_file = None
    /\ server = Serving
    /\ broker = None
    /\ hal = None
    /\ template = None
    /\ pattern = None
    /\ builder = None
    /\ loaded = None

NextVerify == verify_mock_server

SpecVerify == InitVerify /\ [][NextVerify]_vars

(***************************************************************************)
(* The HAL client: HALClient of pact_broker.rs.  A client is a record of   *)
(* its url and its path_info; the broker answers the requests it is sent.  *)
(***************************************************************************)
ProviderPactsPath(provider) == << "/pacts/provider/", provider, "/latest" >>

\* The response of the broker to a GET of url.
Serve(url) ==
    CASE url = broker.url \o << "/" >> -> broker.root
      [] url = broker.url \o ProviderPactsPath(broker.provider) -> broker.latest
      [] url = broker.url \o << "/pacts/a" >> -> broker.pact_a
      [] url = broker.url \o << "/pacts/b" >> -> broker.pact_b
      [] OTHER -> Response(404, None, NoBody)

\* A request that was sent: the path given to fetch, the URL requested, the
\* response, how the client classified it and the result of fetch; link_url
\* is the text of the link when the request follows a link.
Request(path, url, response, result) ==
    [path |-> path, url |-> url, response |-> response,
     json |-> json_content_type(response), result |-> result, link_url |-> None]

\* Mutant: a 404 is reported as an IoError like every other failure status.
fetch_result_without_not_found(client, path, response) ==
    IF response.sent
    THEN IF is_success(response.status)
         THEN IF json_content_type(response) /\ response.body.kind = "json"
              THEN Ok(response.body.json)
              ELSE Err(PactBrokerError("ContentError", "Did not get a HAL response"))
         ELSE Err(PactBrokerError("IoError", "Request to pact broker failed"))
    ELSE Err(PactBrokerError("IoError", "Failed to access pact broker"))

\* The match on the outcome of send() in fetch.
fetch_result(client, path, response) ==
    IF response.sent
    THEN IF is_success(response.status)
         THEN IF json_content_type(response)
              THEN CASE response.body.kind = "json" -> Ok(response.body.json)
                     [] response.body.kind = "text" ->
                          Err(PactBrokerError("ContentError",
                              "Did not get a valid HAL response body from pact broker path '"
                                  \o Str(path) \o "' - syntax error. URL: '"
                                  \o Str(client.url) \o "'"))
                     [] response.body.kind = "absent" ->
                          Err(PactBrokerError("ContentError",
                              "Did not get a valid HAL response body from pact broker path '"
                                  \o Str(path) \o "'. URL: '" \o Str(client.url) \o "'"))
              ELSE Err(PactBrokerError("ContentError",
                       "Did not get a HAL response from pact broker path '" \o Str(path)
                           \o "', content type is '" \o broker_content_type(response)
                           \o "'. URL: '" \o Str(client.url) \o "'"))
         ELSE Err(PactBrokerError(
                  IF response.status = 404 THEN "NotFound" ELSE "IoError",
                  "Request to pact broker path '" \o Str(path) \o "' failed: "
                      \o StatusText(response.status) \o ". URL: '" \o Str(client.url) \o "'"))
    ELSE Err(PactBrokerError("IoError",
             "Failed to access pact broker path '" \o Str(path)
                 \o "' - \"connection refused\". URL: '" \o Str(client.url) \o "'"))

\* fetch: the result and the request that was sent.
fetch(client, path) ==
    LET url == join_paths(client.url, path)
        response == Serve(url)
    IN [result |-> fetch_result(client, path, response),
        sent |-> << Request(path, url, response, fetch_result(client, path, response)) >>]

NotSent(result) == [result |-> result, sent |-> << >>]

\* The call of fetch that ends fetch_url, for the link resolved to url.
fetch_url_path(client, url) == fetch(client, Url_path(url))

fetch_url(client, link, values) ==
    LET link_url ==
            IF link.templated THEN parse_link_url(client, link, values)
            ELSE IF link.href = None
                 THEN Err(PactBrokerError("LinkError",
                          "Link is malformed, there is no href. URL: '" \o Str(client.url)
                              \o "', LINK: '" \o link.name \o "'"))
                 ELSE Ok(CHOOSE href \in link.href : TRUE)
        base == Url_parse(client.url)
        url == Url_join(base.value, link_url.value)
    IN IF ~link_url.ok THEN NotSent(Err(link_url.error))
       ELSE IF ~base.ok THEN NotSent(Err(PactBrokerError("UrlError", base.error)))
       ELSE IF ~url.ok THEN NotSent(Err(PactBrokerError("UrlError", url.error)))
       ELSE LET fetched == fetch_url_path(client, url.value)
            IN [fetched EXCEPT !.sent =
                   << [fetched.sent[1] EXCEPT !.link_url = Some(link_url.value)] >>]

LinkKeyOrder == << "pacts", "pb:latest-provider-pacts" >>

RECURSIVE JoinComma(_)
JoinComma(keys) ==
    IF keys = << >> THEN ""
    ELSE IF Len(keys) = 1 THEN Head(keys)
    ELSE Head(keys) \o ", " \o JoinComma(Tail(keys))

\* The error of find_link and iter_links for a resource without the link.
link_error(client, link, path_info) ==
    IF path_info = None
    THEN PactBrokerError("LinkError",
             "No previous resource has been fetched from the pact broker. URL: '"
                 \o Str(client.url) \o "', LINK: '" \o link \o "'")
    ELSE LET json == CHOOSE j \in path_info : TRUE
         IN IF json_get(json, "_links") = None
            THEN PactBrokerError("LinkError",
                     "Expected a HAL+JSON response from the pact broker, but got a response with no '_links'. URL: '"
                         \o Str(client.url) \o "', LINK: '" \o link \o "'")
            ELSE LET links == CHOOSE l \in json_get(json, "_links") : TRUE
                 IN IF json_get(links, link) = None
                    THEN PactBrokerError("LinkError",
                             "Link '" \o link
                                 \o "' was not found in the response, only the following links where found: \""
                                 \o JoinComma(SelectKeys(LinkKeyOrder,
                                        IF links.t = "object" THEN DOMAIN links.object ELSE {}))
                                 \o "\". URL: '" \o Str(client.url) \o "', LINK: '" \o link \o "'")
                    ELSE PactBrokerError("LinkError",
                             "Link is malformed, expcted an object but got "
                                 \o Str(json_to_string(CHOOSE d \in json_get(links, link) : TRUE))
                                 \o ". URL: '" \o Str(client.url) \o "', LINK: '" \o link \o "'")

\* The JSON of the link of the resource held, if the resource has it.
held_link(client, link) ==
    UNION { UNION { json_get(links, link) : links \in json_get(json, "_links") } :
            json \in client.path_info }

find_link(client, link) ==
    IF \E data \in held_link(client, link) : data.t = "object"
    THEN Ok(Link_from_json(link, (CHOOSE data \in held_link(client, link) : TRUE).object))
    ELSE Err(link_error(client, link, client.path_info))

fetch_link(client, link, values) ==
    LET found == find_link(client, link)
    IN IF ~found.ok THEN NotSent(Err(found.error))
       ELSE fetch_url(client, found.value, values)

iter_link(link, link_json) ==
    CASE link_json.t = "object" -> Link_from_json(link, link_json.object)
      [] link_json.t = "string" -> Link(link, Some(link_json.string), FALSE)
      [] OTHER -> Link(link, Some(json_to_string(link_json)), FALSE)

\* Mutant: the links are collected in the reverse order.
iter_links_reversed(client, link) ==
    IF \E data \in held_link(client, link) : data.t = "array"
    THEN LET array == (CHOOSE data \in held_link(client, link) : TRUE).array
         IN Ok([i \in DOMAIN array |-> iter_link(link, array[Len(array) + 1 - i])])
    ELSE Err(link_error(client, link, client.path_info))

iter_links(client, link) ==
    IF \E data \in held_link(client, link) : data.t = "array"
    THEN LET array == (CHOOSE data \in held_link(client, link) : TRUE).array
         IN Ok([i \in DOMAIN array |-> iter_link(link, array[i])])
    ELSE Err(link_error(client, link, client.path_info))

(***************************************************************************)
(* The brokers of the model and fetch_pacts_from_broker.                   *)
(***************************************************************************)
BrokerUrls == { << "http://broker" >>, << "http://broker", "/pb" >> }
ProviderName == "happy_provider"

HalJson == Some(Mime("application", << "hal", "json" >>, ""))
Json == Some(Mime("application", << "json" >>, "; charset=utf-8"))
VndJson == Some(Mime("application", << "vnd.api", "json" >>, ""))
TextJson == Some(Mime("text", << "json" >>, ""))
Html == Some(Mime("text", << "html" >>, ""))

LatestLink(href) ==
    Object(("href" :> String(href)) @@ ("templated" :> Bool(TRUE)))

RootDoc(link) == Object("_links" :> Object("pb:latest-provider-pacts" :> link))

RootResponses ==
    { Response(200, HalJson, JsonBody(RootDoc(LatestLink(
          << "http://localhost", "/pacts/provider/", "{", "provider", "}", "/latest" >>)))),
      Response(200, Json, JsonBody(RootDoc(LatestLink(
          << "/pacts/provider/", "{", "provider", "}", "/latest", "?q=1" >>)))),
      Response(200, HalJson, JsonBody(Object(EmptyMap))),
      Response(404, None, NoBody),
      TransportFailure }

\* The entries of `_links.pacts`: an absolute href on another host, a
\* relative href, an entry without href and a string with a query.
PactLinks ==
    { Object("href" :> String(<< "http://localhost", "/pacts/a" >>)),
      Object("href" :> String(<< "pacts/b" >>)),
      Object("title" :> String(<< "a" >>)),
      String(<< "/pacts/a", "?q=1" >>) }

PactsDoc(pacts) == Object("_links" :> Object("pacts" :> pacts))

LatestResponses ==
    { Response(200, HalJson, JsonBody(PactsDoc(Array(links)))) :
        links \in SeqsUpTo(PactLinks, MaxPactLinks) }
    \cup { Response(200, HalJson, JsonBody(PactsDoc(Object(EmptyMap)))),
           Response(200, Html, Unparseable),
           Response(404, None, NoBody),
           Response(500, None, NoBody) }

PactDoc(consumer) == Object("consumer" :> Object("name" :> String(<< consumer >>)))

PactAResponses ==
    { Response(200, Json, JsonBody(PactDoc("a"))),
      Response(200, VndJson, JsonBody(PactDoc("a"))),
      Response(200, TextJson, JsonBody(PactDoc("a"))),
      Response(200, None, JsonBody(PactDoc("a"))),
      Response(200, HalJson, Unparseable),
      Response(204, Json, NoBody),
      Response(301, None, NoBody),
      Response(404, None, NoBody),
      TransportFailure }

PactBResponses ==
    { Response(200, HalJson, JsonBody(PactDoc("b"))),
      Response(404, Html, Unparseable) }

Brokers ==
    [url : BrokerUrls, provider : {ProviderName}, root : RootResponses,
     latest : LatestResponses, pact_a : PactAResponses, pact_b : PactBResponses]

\* The client fetch_pacts_from_broker creates.
HALClient(url) ==
    [url |-> url, path_info |-> None, pc |-> "navigate", sent |-> << >>,
     pact_links |-> << >>, pacts |-> << >>, result |-> None]

template_values == "provider" :> broker.provider

InitBroker ==
    /\ logger = None
    /\ last_error = None
    /\ args = None
    /\ pact = << >>
    /\ handlers = [h \in Handlers |-> Idle]
    /\ dispatch = None
    /\ matches = << >>
    /\ verification = "none"
    /\ pact_file = None
    /\ server = Serving
    /\ broker \in Brokers
    /\ hal = HALClient(broker.url)
    /\ template = None
    /\ pattern = None
    /\ builder = None
    /\ loaded = None

\* Mutant: the error of the navigation is returned as it is.
navigate_error_as_it_is(err) == Err(err)

\* The Err arm of fetch_pacts_from_broker.
navigate_error(err) ==
    IF err.kind = "NotFound"
    THEN Err(PactBrokerError("NotFound",
             "No pacts for provider '" \o broker.provider
                 \o "' where found in the pact broker. URL: '" \o Str(broker.url) \o "'"))
    ELSE Err(err)

\* Mutant: the link is followed whether the fetch of the root succeeded or not.
navigate_root_without_try ==
    /\ hal.pc = "navigate"
    /\ hal.path_info = None
    /\ LET fetched == fetch(hal, << "/" >>)
       IN hal' = IF fetched.result.ok
                 THEN [hal EXCEPT !.pc = "fetch_link",
                                  !.path_info = Some(fetched.result.value),
                                  !.sent = @ \o fetched.sent]
                 ELSE [hal EXCEPT !.pc = "fetch_link",
                                  !.sent = @ \o fetched.sent]
    /\ UNCHANGED << pact, handlers, dispatch, matches, verification, pact_file, server,
                    broker, template,
                    pattern, builder, loaded, logger, last_error, args >>

\* navigate: no resource is held, the root of the broker is fetched.
navigate_root ==
    /\ hal.pc = "navigate"
    /\ hal.path_info = None
    /\ LET fetched == fetch(hal, << "/" >>)
       IN hal' = IF fetched.result.ok
                 THEN [hal EXCEPT !.pc = "fetch_link",
                                  !.path_info = Some(fetched.result.value),
                                  !.sent = @ \o fetched.sent]
                 ELSE [hal EXCEPT !.pc = "done",
                                  !.sent = @ \o fetched.sent,
                                  !.result = Some(navigate_error(fetched.result.error))]
    /\ UNCHANGED << pact, handlers, dispatch, matches, verification, pact_file, server,
                    broker, template,
                    pattern, builder, loaded, logger, last_error, args >>

\* navigate: the link pb:latest-provider-pacts of the root is followed.
navigate_link ==
    /\ hal.pc = "fetch_link"
    /\ LET fetched == fetch_link(hal, "pb:latest-provider-pacts", template_values)
       IN hal' = IF fetched.result.ok
                 THEN [hal EXCEPT !.pc = "iter_links",
                                  !.path_info = Some(fetched.result.value),
                                  !.sent = @ \o fetched.sent]
                 ELSE [hal EXCEPT !.pc = "done",
                                  !.sent = @ \o fetched.sent,
                                  !.result = Some(navigate_error(fetched.result.error))]
    /\ UNCHANGED << pact, handlers, dispatch, matches, verification, pact_file, server,
                    broker, template,
                    pattern, builder, loaded, logger, last_error, args >>

\* try!(client.iter_links("pacts"))
pact_links ==
    /\ hal.pc = "iter_links"
    /\ LET links == iter_links(hal, "pacts")
       IN hal' = IF links.ok
                 THEN [hal EXCEPT !.pc = "pacts", !.pact_links = links.value]
                 ELSE [hal EXCEPT !.pc = "done", !.result = Some(Err(links.error))]
    /\ UNCHANGED << pact, handlers, dispatch, matches, verification, pact_file, server,
                    broker, template,
                    pattern, builder, loaded, logger, last_error, args >>

Pact_from_json(source, json) == [source |-> source, json |-> json]

no_href_error(client, link) ==
    PactBrokerError("LinkError",
        "Expected a HAL+JSON response from the pact broker, but got a link with no HREF. URL: '"
            \o Str(client.url) \o "', LINK: 'Link { name: \"" \o link.name
            \o "\", href: None, templated: "
            \o (IF link.templated THEN "true" ELSE "false") \o " }'")

\* The call of fetch_url for a pact link and the pact made of its result.
fetch_pact_url(client, link) ==
    LET fetched == fetch_url(client, link, template_values)
    IN IF fetched.result.ok
       THEN [fetched EXCEPT !.result =
                Ok(Pact_from_json(CHOOSE href \in link.href : TRUE, @.value))]
       ELSE fetched

\* Mutant: after the first error of a pact no other pact is fetched and the
\* error is the result of every later entry.
fetch_pact_or_stop(client, link) ==
    IF \E n \in DOMAIN client.pacts : ~client.pacts[n].ok
    THEN NotSent(client.pacts[Len(client.pacts)])
    ELSE IF link.href # None THEN fetch_pact_url(client, link)
         ELSE NotSent(Err(no_href_error(client, link)))

\* The closure mapped over the pact links.
fetch_pact(client, link) ==
    IF link.href # None THEN fetch_pact_url(client, link)
    ELSE NotSent(Err(no_href_error(client, link)))

\* The next pact link is fetched and its result is collected.
next_pact ==
    /\ hal.pc = "pacts"
    /\ Len(hal.pacts) < Len(hal.pact_links)
    /\ LET fetched == fetch_pact(hal, hal.pact_links[Len(hal.pacts) + 1])
       IN hal' = [hal EXCEPT !.pacts = Append(@, fetched.result),
                             !.sent = @ \o fetched.sent]
    /\ UNCHANGED << pact, handlers, dispatch, matches, verification, pact_file, server,
                    broker, template,
                    pattern, builder, loaded, logger, last_error, args >>

\* Ok(pacts)
return_pacts ==
    /\ hal.pc = "pacts"
    /\ Len(hal.pacts) = Len(hal.pact_links)
    /\ hal' = [hal EXCEPT !.pc = "done", !.result = Some(Ok(hal.pacts))]
    /\ UNCHANGED << pact, handlers, dispatch, matches, verification, pact_file, server,
                    broker, template,
                    pattern, builder, loaded, logger, last_error, args >>

NextBroker ==
    \/ navigate_root
    \/ navigate_link
    \/ pact_links
    \/ next_pact
    \/ return_pacts

SpecBroker == InitBroker /\ [][NextBroker]_vars

(***************************************************************************)
(* parse_link_url applied to a link and a map of values.                   *)
(***************************************************************************)
RECURSIVE Concat(_)
Concat(pieces) == IF pieces = << >> THEN << >> ELSE Head(pieces) \o Concat(Tail(pieces))

\* The pieces the hrefs are made of: braces, text and whole tokens.
Pieces ==
    { << "{" >>, << "}" >>, << "a" >>, << "/" >>,
      << "{", "a", "}" >>, << "{", "b", "}" >>, << "{", "a", "b", "}" >> }

Hrefs == { Concat(pieces) : pieces \in SeqsUpTo(Pieces, MaxPieces) }

ValueMaps ==
    { EmptyMap, "a" :> "A", ("a" :> "A") @@ ("b" :> "B"), "ab" :> "AB" }

TemplateClient == [url |-> << "http://broker" >>, path_info |-> None]

InitTemplate ==
    /\ logger = None
    /\ last_error = None
    /\ args = None
    /\ pact = << >>
    /\ handlers = [h \in Handlers |-> Idle]
    /\ dispatch = None
    /\ matches = << >>
    /\ verification = "none"
    /\ pact_file = None
    /\ server = Serving
    /\ broker = None
    /\ hal = None
    /\ pattern = None
    /\ builder = None
    /\ loaded = None
    /\ \E href \in { Some(h) : h \in Hrefs } \cup { None }, templated \in BOOLEAN,
          values \in ValueMaps :
          template = [link |-> Link("pacts", href, templated), values |-> values,
                      result |-> None]

ParseLinkUrl ==
    /\ template.result = None
    /\ template' = [template EXCEPT
                       !.result = Some(parse_link_url(TemplateClient, template.link,
                                                      template.values))]
    /\ UNCHANGED << pact, handlers, dispatch, matches, verification, pact_file, server,
                    broker, hal,
                    pattern, builder, loaded, logger, last_error, args >>

NextTemplate == ParseLinkUrl

SpecTemplate == InitTemplate /\ [][NextTemplate]_vars

(***************************************************************************)
(* Properties of the dispatch.                                             *)
(***************************************************************************)
MismatchKinds ==
    { "MethodMismatch", "PathMismatch", "QueryMismatch", "HeaderMismatch",
      "BodyTypeMismatch", "BodyMismatch" }

\* The handlers that have dispatched their request.
Dispatched == { h \in Handlers : handlers[h].match_result # None }

RequestOf(h) == CHOOSE r \in handlers[h].request : TRUE
ResultOf(h) == CHOOSE r \in handlers[h].match_result : TRUE
ResponseOf(h) == CHOOSE r \in handlers[h].response : TRUE

\* The mismatches of the n-th interaction of the pact against a request.
MismatchesOf(n, req) == pact_matching_match_request(pact[n].request, req)

DistinctKinds(ms) ==
    Cardinality({ k \in MismatchKinds : \E n \in DOMAIN ms : ms[n].type = k })

\* The earliest declared interaction among those with the fewest distinct kinds.
FirstRanked(req) ==
    CHOOSE n \in DOMAIN pact :
        \A m \in DOMAIN pact :
            \/ DistinctKinds(MismatchesOf(n, req)) < DistinctKinds(MismatchesOf(m, req))
            \/ /\ DistinctKinds(MismatchesOf(n, req)) = DistinctKinds(MismatchesOf(m, req))
               /\ n <= m

HasMethodOrPath(ms) ==
    \E n \in DOMAIN ms : ms[n].type \in {"MethodMismatch", "PathMismatch"}

\* C1: the interactions are ranked ascending by their number of distinct
\* mismatch kinds, and a request for which some interaction of the pact has
\* no mismatch is answered by RequestMatch with an interaction that has none.
C1_MatchWhenSomeInteractionMatches ==
    \A d \in dispatch :
        LET req == d.request
            ranked == match_results(req, pact)
        IN /\ Len(ranked) = Len(pact)
           /\ \A i, j \in DOMAIN ranked :
                 i < j => DistinctKinds(ranked[i][2]) <= DistinctKinds(ranked[j][2])
           /\ (\E n \in DOMAIN pact : MismatchesOf(n, req) = << >>) =>
                 /\ d.result.tag = "RequestMatch"
                 /\ \E n \in DOMAIN pact :
                       /\ d.result.interaction = pact[n]
                       /\ MismatchesOf(n, req) = << >>

C1_Witness ==
    \E d \in dispatch :
        /\ Len(pact) = 2
        /\ MismatchesOf(1, d.request) # << >>
        /\ MismatchesOf(2, d.request) = << >>
        /\ d.result = RequestMatch(pact[2])

\* C2: a request whose first-ranked interaction has a MethodMismatch or a
\* PathMismatch, and any request to a pact without interactions, is answered
\* by RequestNotFound carrying the request.
C2_NotFoundOnMethodOrPath ==
    \A d \in dispatch :
        LET req == d.request
        IN (\/ pact = << >>
            \/ HasMethodOrPath(MismatchesOf(FirstRanked(req), req)))
           => d.result = RequestNotFound(req)

C2_Witness ==
    \E d \in dispatch :
        /\ pact # << >>
        /\ HasMethodOrPath(MismatchesOf(FirstRanked(d.request), d.request))
        /\ ~\E n \in DOMAIN MismatchesOf(FirstRanked(d.request), d.request) :
              MismatchesOf(FirstRanked(d.request), d.request)[n].type = "MethodMismatch"
        /\ d.result.tag = "RequestNotFound"

\* C3: a request whose first-ranked interaction has mismatches, none of them a
\* MethodMismatch or a PathMismatch, is answered by RequestMismatch carrying
\* that interaction and all of its mismatches.
C3_MismatchCarriesAll ==
    \A d \in dispatch :
        LET req == d.request
        IN (/\ pact # << >>
            /\ MismatchesOf(FirstRanked(req), req) # << >>
            /\ ~HasMethodOrPath(MismatchesOf(FirstRanked(req), req)))
           => d.result = RequestMismatch(pact[FirstRanked(req)],
                                            MismatchesOf(FirstRanked(req), req))

C3_Witness ==
    \E d \in dispatch :
        /\ d.result.tag = "RequestMismatch"
        /\ Len(d.result.mismatches) = 2

\* C4: among the interactions with the same number of distinct mismatch kinds
\* the one declared earliest is ranked first, and it decides the outcome.
C4_TiesByDeclarationOrder ==
    \A d \in dispatch :
        LET req == d.request
            ranked == match_results(req, pact)
        IN pact # << >> =>
             /\ Head(ranked) = << pact[FirstRanked(req)], MismatchesOf(FirstRanked(req), req) >>
             /\ \A i, j \in DOMAIN pact :
                   (i < j /\ DistinctKinds(MismatchesOf(i, req)) = DistinctKinds(MismatchesOf(j, req)))
                   => \E a, b \in DOMAIN ranked :
                         /\ a < b
                         /\ ranked[a] = << pact[i], MismatchesOf(i, req) >>
                         /\ ranked[b] = << pact[j], MismatchesOf(j, req) >>
             /\ d.result.tag # "RequestNotFound" =>
                   d.result.interaction = pact[FirstRanked(req)]

C4_Witness ==
    \E d \in dispatch :
        /\ Len(pact) = 2
        /\ pact[1] # pact[2]
        /\ MismatchesOf(1, d.request) # << >>
        /\ DistinctKinds(MismatchesOf(1, d.request)) = DistinctKinds(MismatchesOf(2, d.request))
        /\ d.result.tag = "RequestMismatch"
        /\ d.result.interaction = pact[1]

InsertAt(seq, p, x) == SubSeq(seq, 1, p - 1) \o << x >> \o SubSeq(seq, p, Len(seq))

\* C5: a request that is answered by RequestMatch(I) is still answered by
\* RequestMatch(I) after any interaction is added to the pact after I.
C5_DispatcherMonotonicity ==
    \A d \in dispatch :
        d.result.tag = "RequestMatch" =>
            \A added \in Interactions :
                \A p \in (FirstRanked(d.request) + 1) .. (Len(pact) + 1) :
                    match_request(d.request, InsertAt(pact, p, added))
                        = RequestMatch(d.result.interaction)

C5_Witness ==
    \E d \in dispatch :
        /\ Len(pact) = 2
        /\ pact[1] # pact[2]
        /\ d.result = RequestMatch(pact[1])
        /\ MismatchesOf(2, d.request) = << >>
        /\ match_request(d.request, << pact[1] >>) = RequestMatch(pact[1])

(***************************************************************************)
(* Properties of the report and of its verification.                       *)
(***************************************************************************)
\* C6: every request the server has dispatched has its (request, match
\* result) entry in the report, and the report holds no other entry: one
\* entry per completed request.
C6_EveryRequestRecorded ==
    /\ \A h \in Dispatched :
          \E e \in DOMAIN matches :
              /\ matches[e].request = RequestOf(h)
              /\ matches[e].result = ResultOf(h)
    /\ Len(matches) <= Cardinality(Dispatched)

MatchedInteractions ==
    { matches[e].result.interaction :
        e \in { e \in DOMAIN matches : matches[e].result.tag = "RequestMatch" } }

ReportTags == { matches[e].result.tag : e \in DOMAIN matches }

\* C7: the verification succeeds, and the pact file is written, exactly when
\* every interaction of the pact has a RequestMatch entry in the report and
\* the report has no RequestNotFound entry.
C7_VerifyIffAllMatchedNoUnexpected ==
    verification # "none" =>
        /\ verification = "ok" <=>
              /\ \A n \in DOMAIN pact : pact[n] \in MatchedInteractions
              /\ "RequestNotFound" \notin ReportTags
        /\ pact_file = Some(pact) <=> verification = "ok"
        /\ pact_file = None <=> verification = "failed"

C7_Witness ==
    /\ verification = "ok"
    /\ Len(pact) = 2
    /\ pact[1] # pact[2]
    /\ "RequestMismatch" \in ReportTags
    /\ pact_file = Some(pact)

(***************************************************************************)
(* Properties of the responses.                                            *)
(***************************************************************************)
RECURSIVE mismatches_json(_)
mismatches_json(ms) ==
    IF ms = << >> THEN ""
    ELSE "{\"type\":\"" \o Head(ms).type \o "\",\"key\":\"" \o Head(ms).key \o "\"}"
         \o (IF Tail(ms) = << >> THEN "" ELSE ",") \o mismatches_json(Tail(ms))

\* C8: a request answered by RequestMismatch gets a response of status 500
\* whose body is the JSON list of the mismatches.
C8_MismatchResponseIs500 ==
    \A h \in Dispatched :
        ResultOf(h).tag = "RequestMismatch" =>
            /\ ResponseOf(h).status = 500
            /\ ResponseOf(h).body = "[" \o mismatches_json(ResultOf(h).mismatches) \o "]"

\* C9: a request answered by RequestNotFound gets a response of status 500
\* with the body "No matching interaction".
C9_NotFoundResponseIs500 ==
    \A h \in Dispatched :
        ResultOf(h).tag = "RequestNotFound" =>
            /\ ResponseOf(h).status = 500
            /\ ResponseOf(h).body = "No matching interaction"

AllowOrigin == "access-control-allow-origin"

AllowOriginNames ==
    { "Access-Control-Allow-Origin", "ACCESS-CONTROL-ALLOW-ORIGIN", "access-control-allow-origin" }

ConfiguredHeaders(h) == OptMap(ResultOf(h).interaction.response.headers)

\* C10 as claimed: the response to a matched request carries
\* Access-Control-Allow-Origin with the value "*", whatever the headers of
\* the interaction's response.
C10_AllowOriginAlwaysStar ==
    \A h \in Dispatched :
        ResultOf(h).tag = "RequestMatch" =>
            /\ AllowOrigin \in DOMAIN ResponseOf(h).headers
            /\ \E n \in DOMAIN ResponseOf(h).headers[AllowOrigin] :
                  ResponseOf(h).headers[AllowOrigin][n] = "*"

\* C10 as amended: the response built from a matched interaction carries
\* Access-Control-Allow-Origin exactly once; its value is "*" when no header
\* of the interaction's response is named Access-Control-Allow-Origin (in any
\* case) and is otherwise the value of such a header.  When a header of the
\* interaction's response has an invalid name or value, the response is the
\* 500 "Could not set response header", without the header.
C10_AllowOriginStarUnlessConfigured ==
    \A h \in Dispatched :
        ResultOf(h).tag = "RequestMatch" =>
            LET configured == ConfiguredHeaders(h)
                named == DOMAIN configured \cap AllowOriginNames
                invalid == \E k \in DOMAIN configured :
                              \/ k \in InvalidHeaderNames
                              \/ configured[k] \in InvalidHeaderValues
            IN IF invalid
               THEN ResponseOf(h) = HyperResponse(500, EmptyMap, "Could not set response header")
               ELSE /\ ResponseOf(h).status = ResultOf(h).interaction.response.status
                    /\ AllowOrigin \in DOMAIN ResponseOf(h).headers
                    /\ Len(ResponseOf(h).headers[AllowOrigin]) = 1
                    /\ IF named = {}
                       THEN ResponseOf(h).headers[AllowOrigin][1] = "*"
                       ELSE ResponseOf(h).headers[AllowOrigin][1] \in { configured[k] : k \in named }

C10_Witness ==
    \E h \in Dispatched :
        /\ ResultOf(h).tag = "RequestMatch"
        /\ "Access-Control-Allow-Origin" \in DOMAIN ConfiguredHeaders(h)
        /\ ResponseOf(h).headers[AllowOrigin] = << "http://example.org" >>

(***************************************************************************)
(* Properties of the conversion of errors into responses.                  *)
(***************************************************************************)
Responded == { h \in Handlers : handlers[h].pc = "responded" }

HyperOf(h) == CHOOSE r \in handlers[h].hyper : TRUE

\* Some value of some inbound header cannot be decoded.
SomeValueUndecodable(req) ==
    \E name \in DOMAIN req.headers :
        \E i \in DOMAIN req.headers[name] : req.headers[name][i] = NonAsciiValue

\* The first value of some inbound header cannot be decoded.
FirstValueUndecodable(req) ==
    \E name \in DOMAIN req.headers : Head(req.headers[name]) = NonAsciiValue

InvalidOutbound(interaction) ==
    \E name \in DOMAIN OptMap(interaction.response.headers) :
        \/ name \in InvalidHeaderNames
        \/ OptMap(interaction.response.headers)[name] \in InvalidHeaderValues

\* C11 as stated: a request with an inbound header value that cannot be
\* decoded is answered 400 and is not dispatched; a request whose body cannot
\* be read is answered 500 "Could not process request body"; a matched
\* interaction with an invalid response header is answered 500 "Could not set
\* response header" and not with the status of the interaction.
C11_ErrorsBecomeResponses ==
    \A h \in Responded :
        /\ SomeValueUndecodable(HyperOf(h)) =>
              /\ ResponseOf(h).status = 400
              /\ handlers[h].match_result = None
        /\ (~SomeValueUndecodable(HyperOf(h)) /\ ~HyperOf(h).body.ok) =>
              ResponseOf(h) = HyperResponse(500, EmptyMap, "Could not process request body")
        /\ \A r \in handlers[h].match_result :
              (r.tag = "RequestMatch" /\ InvalidOutbound(r.interaction)) =>
                  ResponseOf(h) = HyperResponse(500, EmptyMap, "Could not set response header")

\* C11 amended: it is the first value of a header name that is decoded; a
\* request with a first value that cannot be decoded is answered 400 "Found
\* an invalid header encoding" and is not dispatched, whatever its body; a
\* value after the first one is never decoded and causes no error.
C11_FirstValueErrorsBecomeResponses ==
    \A h \in Responded :
        /\ FirstValueUndecodable(HyperOf(h)) =>
              /\ ResponseOf(h) = HyperResponse(400, EmptyMap, "Found an invalid header encoding")
              /\ handlers[h].match_result = None
        /\ (~FirstValueUndecodable(HyperOf(h)) /\ ~HyperOf(h).body.ok) =>
              /\ ResponseOf(h) = HyperResponse(500, EmptyMap, "Could not process request body")
              /\ handlers[h].match_result = None
        /\ (~FirstValueUndecodable(HyperOf(h)) /\ HyperOf(h).body.ok) =>
              /\ handlers[h].match_result # None
              /\ ResponseOf(h).status # 400
        /\ \A r \in handlers[h].match_result :
              (r.tag = "RequestMatch" /\ InvalidOutbound(r.interaction)) =>
                  ResponseOf(h) = HyperResponse(500, EmptyMap, "Could not set response header")

C11_Witness ==
    /\ \E h \in Responded :
          /\ FirstValueUndecodable(HyperOf(h))
          /\ ~HyperOf(h).body.ok
          /\ ResponseOf(h).status = 400
    /\ \E h \in Responded :
          /\ handlers[h].match_result # None
          /\ ResultOf(h).tag = "RequestMatch"
          /\ InvalidOutbound(ResultOf(h).interaction)
          /\ ResultOf(h).interaction.response.status # 500

(***************************************************************************)
(* Properties of the path of the internal request.                         *)
(***************************************************************************)
\* The characters of the paths of the model.
PathChars(path) ==
    CASE path = "/" -> << "/" >>
      [] path = "/a" -> << "/", "a" >>
      [] path = "/b" -> << "/", "b" >>
      [] path = "*" -> << "*" >>

\* C13: the internal request of every incoming request has a path that
\* begins with `/` and holds no query string; the path is `/` when the URI
\* of the request carries none.
C13_PathBeginsWithSlash ==
    \A h \in Handlers :
        \A r \in handlers[h].request :
            /\ Head(PathChars(r.path)) = "/"
            /\ \A i \in DOMAIN PathChars(r.path) : PathChars(r.path)[i] # "?"
            /\ HyperOf(h).uri.path_and_query = None => r.path = "/"

IsToken(href, i, j) ==
    /\ href[i] = "{"
    /\ j > i + 1
    /\ href[j] = "}"
    /\ \A k \in (i + 1) .. (j - 1) : href[k] \in WordAtoms

Tokens(href) == { t \in (DOMAIN href) \X (DOMAIN href) : IsToken(href, t[1], t[2]) }

TokenName(href, t) == Str(SubSeq(href, t[1] + 1, t[2] - 1))

\* href with each token that has a mapped value replaced by that value.
RECURSIVE Expanded(_, _)
Expanded(href, values) ==
    IF Tokens(href) = {} THEN href
    ELSE LET t == CHOOSE t \in Tokens(href) : \A u \in Tokens(href) : t[1] <= u[1]
         IN SubSeq(href, 1, t[1] - 1)
                \o (IF TokenName(href, t) \in DOMAIN values
                    THEN << values[TokenName(href, t)] >>
                    ELSE SubSeq(href, t[1], t[2]))
                \o Expanded(SubSeq(href, t[2] + 1, Len(href)), values)

\* C18: parse_link_url returns the href with every {name} token whose name
\* is a key of the value map replaced by the mapped value, every other token
\* and all other text unchanged; it returns a LinkError when the link has no
\* href.
C18_TemplateExpansion ==
    \A r \in template.result :
        IF template.link.href = None
        THEN ~r.ok /\ r.error.kind = "LinkError"
        ELSE /\ r.ok
             /\ r.value = Expanded(CHOOSE h \in template.link.href : TRUE, template.values)

C18_Witness ==
    /\ \E r \in template.result : r.ok /\ r.value = << "A", "/", "{", "b", "}" >>
    /\ template.link.href = Some(<< "{", "a", "}", "/", "{", "b", "}" >>)
    /\ DOMAIN template.values = {"a"}

(***************************************************************************)
(* Properties of fetch_pacts_from_broker.                                  *)
(***************************************************************************)
\* The root and the latest-provider-pacts resource were fetched successfully.
Navigated ==
    /\ Len(hal.sent) >= 2
    /\ hal.sent[1].result.ok
    /\ hal.sent[2].result.ok

\* The value of `_links.pacts` in the latest-provider-pacts resource.
ListedPacts ==
    UNION { json_get(links, "pacts") : links \in json_get(hal.sent[2].result.value, "_links") }

HasPactsArray == Navigated /\ \E pacts \in ListedPacts : pacts.t = "array"

Entries == (CHOOSE pacts \in ListedPacts : TRUE).array

\* The href of an entry of `_links.pacts`, if it has one.
EntryHref(entry) ==
    IF entry.t = "string" THEN Some(entry.string)
    ELSE IF entry.t = "object" /\ "href" \in DOMAIN entry.object THEN Some(entry.object["href"].string)
    ELSE None

\* The response of the broker for the pact document a href points to.
Document(href) ==
    CASE Str(href) = "http://localhost/pacts/a" -> broker.pact_a
      [] Str(href) = "/pacts/a?q=1" -> broker.pact_a
      [] Str(href) = "pacts/b" -> broker.pact_b

ServedAsJson(response) ==
    /\ response.sent
    /\ response.status = 200
    /\ response.content_type \in {Json, HalJson}
    /\ response.body.kind = "json"

\* C14: when the root and the latest-provider-pacts resource are fetched
\* successfully and `_links.pacts` is an array of n links, the result is Ok
\* with exactly n elements, the i-th element is the result for the i-th link,
\* and an element is Ok, with the pact of its document, when the document of
\* its link is served as JSON.
C14_OnePactPerLink ==
    (hal.pc = "done" /\ HasPactsArray) =>
        \A r \in hal.result :
            /\ r.ok
            /\ Len(r.value) = Len(Entries)
            /\ \A i \in DOMAIN Entries :
                 /\ r.value[i].ok =>
                      r.value[i].value.source \in EntryHref(Entries[i])
                 /\ \A href \in EntryHref(Entries[i]) :
                      ServedAsJson(Document(href)) =>
                          /\ r.value[i].ok
                          /\ r.value[i].value =
                                 Pact_from_json(href, Document(href).body.json)

C14_Witness ==
    /\ hal.pc = "done"
    /\ HasPactsArray
    /\ Len(Entries) = 2
    /\ EntryHref(Entries[1]) = Some(<< "pacts/b" >>)
    /\ EntryHref(Entries[2]) = Some(<< "http://localhost", "/pacts/a" >>)
    /\ \A r \in hal.result : r.ok /\ r.value[1].ok /\ r.value[2].ok

\* The message of the error for a provider without pacts.
NoPactsMessage ==
    CASE broker.url = << "http://broker" >> ->
           "No pacts for provider 'happy_provider' where found in the pact broker. URL: 'http://broker'"
      [] broker.url = << "http://broker", "/pb" >> ->
           "No pacts for provider 'happy_provider' where found in the pact broker. URL: 'http://broker/pb'"

LatestAnswered404 ==
    /\ Len(hal.sent) >= 2
    /\ hal.sent[1].result.ok
    /\ hal.sent[2].response.sent
    /\ hal.sent[2].response.status = 404

\* C15: when the broker answers 404 on the latest-provider-pacts URL, the
\* result is the error NotFound with the message "No pacts for provider 'X'
\* where found in the pact broker. URL: '<broker url>'" and no pact is
\* fetched.
C15_NotFoundForProviderWithoutPacts ==
    LatestAnswered404 =>
        /\ hal.pc = "done"
        /\ Len(hal.sent) = 2
        /\ hal.pacts = << >>
        /\ hal.result # None
        /\ \A r \in hal.result :
             /\ ~r.ok
             /\ r.error.kind = "NotFound"
             /\ r.error.message = NoPactsMessage

C15_Witness ==
    /\ LatestAnswered404
    /\ hal.pc = "done"
    /\ broker.latest.status = 404
    /\ broker.url = << "http://broker", "/pb" >>

\* The entry of `_links.pacts` fails: it has no href or its document is not
\* fetched as parseable JSON.
EntryFails(entry) ==
    \A href \in EntryHref(entry) :
        LET response == Document(href)
        IN \/ ~response.sent
           \/ ~is_success(response.status)
           \/ response.content_type \notin {Json, HalJson}
           \/ response.body.kind # "json"

\* C16: one pact of `_links.pacts` that cannot be fetched or parsed, or that
\* has no href, gives an Err element at the position of its entry; the call
\* is not aborted, the elements of the other entries are what they are
\* without the failure, and the overall result is Ok.
C16_PactFailuresAreElements ==
    (hal.pc = "done" /\ HasPactsArray) =>
        \A r \in hal.result :
            /\ r.ok
            /\ Len(r.value) = Len(Entries)
            /\ \A i \in DOMAIN Entries :
                 /\ EntryFails(Entries[i]) <=> ~r.value[i].ok
                 /\ EntryHref(Entries[i]) = None => r.value[i].error.kind = "LinkError"
                 /\ ~EntryFails(Entries[i]) =>
                      \A href \in EntryHref(Entries[i]) :
                          r.value[i].value = Pact_from_json(href, Document(href).body.json)

C16_Witness ==
    /\ hal.pc = "done"
    /\ HasPactsArray
    /\ Len(Entries) = 2
    /\ EntryHref(Entries[1]) = None
    /\ EntryHref(Entries[2]) = Some(<< "pacts/b" >>)
    /\ \A r \in hal.result : r.ok /\ ~r.value[1].ok /\ r.value[2].ok

(***************************************************************************)
(* Properties of the requests of the HAL client.                           *)
(***************************************************************************)
\* The requests that follow a link.
LinkRequests == { k \in DOMAIN hal.sent : hal.sent[k].link_url # None }

LinkUrlOf(k) == CHOOSE l \in hal.sent[k].link_url : TRUE

\* The href of the link of request k resolved against the broker URL.
ResolvedUrl(k) == Url_join(Url_parse(broker.url).value, LinkUrlOf(k)).value

\* C17: the URL requested for a link is its href resolved against the broker
\* URL, an absolute href as given, with the path and the query of the
\* resolved URL.
C17_RequestsResolvedHref ==
    \A k \in LinkRequests :
        /\ Str(hal.sent[k].url)
             = ResolvedUrl(k).origin \o Str(Url_path(ResolvedUrl(k))) \o Str(ResolvedUrl(k).query)
        /\ Head(LinkUrlOf(k)) \in Origins => Str(hal.sent[k].url) = Str(LinkUrlOf(k))

\* The Content-Type the claim C19 takes for JSON: application/json or
\* application/<anything>+json.
AnyJsonSuffix(response) ==
    \E mime \in response.content_type :
        /\ mime.top = "application"
        /\ \/ mime.sub = << "json" >>
           \/ Len(mime.sub) >= 2 /\ mime.sub[Len(mime.sub)] = "json"

JsonOrHalJson(response) ==
    \E mime \in response.content_type :
        /\ mime.top = "application"
        /\ JoinPlus(mime.sub) \in {"json", "hal+json"}

\* C19 as stated: a response is classified as JSON exactly when its
\* Content-Type, ignoring parameters, is application/json or
\* application/<anything>+json.
C19_JsonIsAnyJsonSuffix ==
    \A k \in DOMAIN hal.sent :
        hal.sent[k].json <=> AnyJsonSuffix(hal.sent[k].response)

\* C19 amended: a response is classified as JSON exactly when its
\* Content-Type, ignoring parameters, is application/json or
\* application/hal+json; without a Content-Type it is not JSON.
C19_JsonIsJsonOrHalJson ==
    \A k \in DOMAIN hal.sent :
        /\ hal.sent[k].json <=> JsonOrHalJson(hal.sent[k].response)
        /\ hal.sent[k].response.content_type = None => ~hal.sent[k].json

C19_Witness ==
    /\ \E k \in DOMAIN hal.sent :
          hal.sent[k].response.content_type = VndJson /\ ~hal.sent[k].json
    /\ \E k \in DOMAIN hal.sent :
          hal.sent[k].response.content_type = Json /\ hal.sent[k].json

\* C20: fetch returns NotFound for a 404, IoError for any other status that
\* is not a success and for a transport failure, ContentError for a success
\* whose content type is not JSON or whose body is absent or not parseable,
\* and Ok with the parsed JSON value in every remaining case.
C20_FetchErrorTaxonomy ==
    \A k \in DOMAIN hal.sent :
        LET response == hal.sent[k].response
            result == hal.sent[k].result
        IN IF ~response.sent THEN ~result.ok /\ result.error.kind = "IoError"
           ELSE IF response.status = 404 THEN ~result.ok /\ result.error.kind = "NotFound"
           ELSE IF response.status < 200 \/ response.status > 299
                THEN ~result.ok /\ result.error.kind = "IoError"
           ELSE IF ~JsonOrHalJson(response) \/ response.body.kind # "json"
                THEN ~result.ok /\ result.error.kind = "ContentError"
           ELSE result.ok /\ result.value = response.body.json

C20_Witness ==
    /\ \E k \in DOMAIN hal.sent :
          /\ hal.sent[k].response.status = 404
          /\ hal.sent[k].result.error.kind = "NotFound"
    /\ \E k \in DOMAIN hal.sent : hal.sent[k].response.status = 200
                                   /\ hal.sent[k].result.ok
    /\ \E k \in DOMAIN hal.sent :
          /\ hal.sent[k].response.status = 200
          /\ ~hal.sent[k].result.ok
          /\ hal.sent[k].result.error.kind = "ContentError"


(***************************************************************************)
(* pact_consumer::patterns.  A pattern has an example value and matching   *)
(* rules; Matchers is a HashMap from a selector path to a rule, a map from *)
(* attribute names to strings.                                             *)
(***************************************************************************)
\* HashMap::insert: the rule replaces the one the path already had.
rules_insert(rules, path, rule) ==
    [k \in DOMAIN rules \cup { path } |-> IF k = path THEN rule ELSE rules[k]]

\* JsonPattern: a JSON value, an array or an object of patterns, or a
\* special pattern (SomethingLike, ArrayLike, Term).
JsonPattern_Json(json) == [p |-> "Json", json |-> json]
JsonPattern_Array(items) == [p |-> "Array", items |-> items]
JsonPattern_Object(fields) == [p |-> "Object", fields |-> fields]

SomethingLike(example) == [p |-> "SomethingLike", example |-> example]

ArrayLike(example_element, min_length) ==
    [p |-> "ArrayLike", example_element |-> example_element, min_length |-> min_length]

ArrayLike_new(example_element) == ArrayLike(example_element, 1)

with_min_length(self, min_length) == [self EXCEPT !.min_length = min_length]

Term(regex, example) == [p |-> "Term", regex |-> regex, example |-> example]

IdentifierStart ==
    { "_", "a", "b", "c", "d", "e", "f", "g", "h", "i", "j", "k", "l", "m", "n", "o",
      "p", "q", "r", "s", "t", "u", "v", "w", "x", "y", "z",
      "A", "B", "C", "D", "E", "F", "G", "H", "I", "J", "K", "L", "M", "N", "O",
      "P", "Q", "R", "S", "T", "U", "V", "W", "X", "Y", "Z" }

Digits == { "0", "1", "2", "3", "4", "5", "6", "7", "8", "9" }

\* util::obj_key_for_path: `.key` for an identifier, `['key']` otherwise.
obj_key_for_path(key) ==
    IF /\ Len(key) > 0
       /\ SubSeq(key, 1, 1) \in IdentifierStart
       /\ \A i \in 2 .. Len(key) : SubSeq(key, i, i) \in IdentifierStart \cup Digits
    THEN "." \o key
    ELSE "['" \o key \o "']"

RECURSIVE to_example(_)
RECURSIVE extract_matching_rules(_, _, _)

SomethingLike_to_example(self) == to_example(self.example)

\* Mutant: the type rule is inserted after the rules of the nested pattern.
SomethingLike_rule_last(self, path, rules_out) ==
    rules_insert(extract_matching_rules(self.example, path, rules_out),
                 path, "match" :> "type")

SomethingLike_extract_matching_rules(self, path, rules_out) ==
    extract_matching_rules(self.example, path,
                           rules_insert(rules_out, path, "match" :> "type"))

ArrayLike_to_example(self) ==
    Array([i \in 1 .. self.min_length |-> to_example(self.example_element)])

\* Mutant: the rule of the array does not state the minimum length.
ArrayLike_rule_without_min(self, path, rules_out) ==
    extract_matching_rules(self.example_element, path \o "[*]",
        rules_insert(rules_insert(rules_out, path, "match" :> "type"),
                     path \o "[*].*", "match" :> "type"))

ArrayLike_extract_matching_rules(self, path, rules_out) ==
    extract_matching_rules(self.example_element, path \o "[*]",
        rules_insert(rules_insert(rules_out, path,
                                  ("match" :> "type") @@ ("min" :> ToString(self.min_length))),
                     path \o "[*].*", "match" :> "type"))

Term_to_example(self) == String(self.example)

Term_rule_of_example(self, path, rules_out) ==
    rules_insert(rules_out, path, ("match" :> "regex") @@ ("regex" :> self.example))

Term_extract_matching_rules(self, path, rules_out) ==
    rules_insert(rules_out, path, ("match" :> "regex") @@ ("regex" :> self.regex))

RECURSIVE extract_array_rules(_, _, _, _)
extract_array_rules(items, i, path, rules_out) ==
    IF i > Len(items) THEN rules_out
    ELSE extract_array_rules(items, i + 1, path,
             extract_matching_rules(items[i], path \o "[" \o ToString(i - 1) \o "]",
                                    rules_out))

RECURSIVE extract_object_rules(_, _, _, _)
extract_object_rules(fields, keys, path, rules_out) ==
    IF keys = {} THEN rules_out
    ELSE LET key == CHOOSE k \in keys : TRUE
         IN extract_object_rules(fields, keys \ { key }, path,
                extract_matching_rules(fields[key], path \o obj_key_for_path(key),
                                       rules_out))

to_example(self) ==
    CASE self.p = "Json" -> self.json
      [] self.p = "Array" ->
            Array([i \in DOMAIN self.items |-> to_example(self.items[i])])
      [] self.p = "Object" ->
            Object([k \in DOMAIN self.fields |-> to_example(self.fields[k])])
      [] self.p = "SomethingLike" -> SomethingLike_to_example(self)
      [] self.p = "ArrayLike" -> ArrayLike_to_example(self)
      [] self.p = "Term" -> Term_to_example(self)

extract_matching_rules(self, path, rules_out) ==
    CASE self.p = "Json" -> rules_out
      [] self.p = "Array" -> extract_array_rules(self.items, 1, path, rules_out)
      [] self.p = "Object" ->
            extract_object_rules(self.fields, DOMAIN self.fields, path, rules_out)
      [] self.p = "SomethingLike" ->
            SomethingLike_extract_matching_rules(self, path, rules_out)
      [] self.p = "ArrayLike" ->
            ArrayLike_extract_matching_rules(self, path, rules_out)
      [] self.p = "Term" -> Term_extract_matching_rules(self, path, rules_out)
      [] self.p = "String" -> rules_out


(***************************************************************************)
(* The patterns the functions of a pattern are applied to.                 *)
(***************************************************************************)
MaxNesting == 2
MaxMinLength == 2

PatternLeaves ==
    { JsonPattern_Json(String("hello")), JsonPattern_Json(Bool(FALSE)),
      Term("h.*", "hello") }

Wrapped(p) ==
    { SomethingLike(p), JsonPattern_Array(<< p >>),
      JsonPattern_Object(("message" :> p) @@ ("content-type" :> Term("h.*", "hello"))) }
    \cup { with_min_length(ArrayLike_new(p), n) : n \in 0 .. MaxMinLength }

RECURSIVE PatternsUpTo(_)
PatternsUpTo(n) ==
    IF n = 0 THEN PatternLeaves
    ELSE PatternLeaves \cup UNION { Wrapped(p) : p \in PatternsUpTo(n - 1) }

SelectorPaths == { "$", "$.body" }

RulesBefore ==
    { EmptyRules,
      ("$" :> (("match" :> "regex") @@ ("regex" :> "old")))
      @@ ("$.other" :> ("match" :> "type")) }

PatternState(p, min_length, path, rules_out) ==
    [pattern |-> p, min_length |-> min_length, path |-> path, rules_out |-> rules_out,
     example |-> None, rules |-> None]

\* A pattern, the selector prefix and the rules the caller holds already.  An
\* ArrayLike is built by ArrayLike::new, then with_min_length if a length is
\* given.
InitPattern ==
    /\ logger = None
    /\ last_error = None
    /\ args = None
    /\ pact = << >>
    /\ handlers = [h \in Handlers |-> Idle]
    /\ dispatch = None
    /\ matches = << >>
    /\ verification = "none"
    /\ pact_file = None
    /\ server = Serving
    /\ broker = None
    /\ hal = None
    /\ template = None
    /\ builder = None
    /\ loaded = None
    /\ \E path \in SelectorPaths, rules_out \in RulesBefore :
          \/ \E p \in { q \in PatternsUpTo(MaxNesting) : q.p # "ArrayLike" } :
                pattern = PatternState(p, None, path, rules_out)
          \/ \E e \in PatternsUpTo(MaxNesting - 1) :
                \/ pattern = PatternState(ArrayLike_new(e), None, path, rules_out)
                \/ \E n \in 0 .. MaxMinLength :
                      pattern = PatternState(with_min_length(ArrayLike_new(e), n),
                                             Some(n), path, rules_out)

ToExample ==
    /\ pattern.example = None
    /\ pattern' = [pattern EXCEPT !.example = Some(to_example(pattern.pattern))]
    /\ UNCHANGED << pact, handlers, dispatch, matches, verification, pact_file, server,
                    broker, hal, template, builder, loaded, logger, last_error, args >>

ExtractMatchingRules ==
    /\ pattern.rules = None
    /\ pattern' = [pattern EXCEPT
                      !.rules = Some(extract_matching_rules(pattern.pattern, pattern.path,
                                                            pattern.rules_out))]
    /\ UNCHANGED << pact, handlers, dispatch, matches, verification, pact_file, server,
                    broker, hal, template, builder, loaded, logger, last_error, args >>

NextPattern == ToExample \/ ExtractMatchingRules

SpecPattern == InitPattern /\ [][NextPattern]_vars


(***************************************************************************)
(* pact_consumer::builders::HttpPartBuilder, for the request of an         *)
(* interaction.                                                            *)
(***************************************************************************)
\* StringPattern: a literal string or a special pattern.
StringPattern_String(string) == [p |-> "String", string |-> string]

\* StringPattern::to_example: the example as a string.
RECURSIVE StringPattern_to_example(_)
StringPattern_to_example(self) ==
    CASE self.p = "String" -> self.string
      [] self.p = "Term" -> self.example
      [] self.p = "SomethingLike" -> StringPattern_to_example(self.example)

\* The request of a new interaction.
default_request ==
    [method |-> "GET", path |-> "/", query |-> None, headers |-> None, body |-> Missing,
     matching_rules |-> EmptyRules]

\* Mutant: the selector of the header is always written with a dot.
header_dot_selector(self, name, value) ==
    [self EXCEPT !.headers = Some([k \in DOMAIN OptMap(@) \cup { name } |->
                                      IF k = name THEN StringPattern_to_example(value)
                                      ELSE OptMap(@)[k]]),
                 !.matching_rules =
                     extract_matching_rules(value, "$.headers." \o name, @)]

\* Mutant: the header is stored with its example and its rules are dropped.
header_without_rules(self, name, value) ==
    [self EXCEPT !.headers = Some([k \in DOMAIN OptMap(@) \cup { name } |->
                                      IF k = name THEN StringPattern_to_example(value)
                                      ELSE OptMap(@)[k]])]

header(self, name, value) ==
    [self EXCEPT !.headers = Some([k \in DOMAIN OptMap(@) \cup { name } |->
                                      IF k = name THEN StringPattern_to_example(value)
                                      ELSE OptMap(@)[k]]),
                 !.matching_rules =
                     extract_matching_rules(value, "$.headers" \o obj_key_for_path(name), @)]

body(self, string) == [self EXCEPT !.body = Present(string)]

\* Mutant: the rules of the body are extracted under `$`.
json_body_rules_at_root(self, json_pattern) ==
    [self EXCEPT !.body = Present(serde_json_to_string(to_example(json_pattern))),
                 !.matching_rules = extract_matching_rules(json_pattern, "$", @)]

json_body(self, json_pattern) ==
    [self EXCEPT !.body = Present(serde_json_to_string(to_example(json_pattern))),
                 !.matching_rules = extract_matching_rules(json_pattern, "$.body", @)]

(***************************************************************************)
(* Two interactions are built, the pattern and the actual one, and the     *)
(* request of the second is matched against the request of the first.      *)
(***************************************************************************)
MaxCalls == 2

HeaderNames == { "Content-Type" }

HeaderLiterals ==
    { StringPattern_String("application/json"), StringPattern_String("application/xml"),
      StringPattern_String("text/html") }

HeaderPatterns ==
    HeaderLiterals \cup { Term("application/.*", "application/json"),
                          Term("application/.*", "text/html") }

BodyLiterals == { "Hello", "Bye" }

Hello == JsonPattern_Json(String("hello"))

BodyPatterns ==
    { JsonPattern_Object("message" :> SomethingLike(Hello)),
      JsonPattern_Object("message" :> Hello),
      JsonPattern_Object("message" :> SomethingLike(JsonPattern_Array(<< Hello >>))),
      JsonPattern_Object("message" :> Term("h.*", "hello")),
      JsonPattern_Object("message" :> Term("h.*", "bye")),
      with_min_length(ArrayLike_new(SomethingLike(Hello)), 2) }

ActualBodies ==
    { JsonPattern_Json(json) :
        json \in { Object("message" :> v) : v \in JsonValuesUpTo(1) }
                 \cup { Array(<< String("hello"), String("hello") >>),
                        Array(<< String("bye"), String("bye") >>), Array(<< String("bye") >>),
                        Array(<< Bool(FALSE), Bool(FALSE) >>) } }

Queries == { None, Some("q" :> << "1" >>) }

Sides == { "pattern", "actual" }

\* The patterns last given for the headers and for the body of a request.
NothingGiven == [headers |-> EmptyMap, body |-> None]

InitBuilder ==
    /\ logger = None
    /\ last_error = None
    /\ args = None
    /\ pact = << >>
    /\ handlers = [h \in Handlers |-> Idle]
    /\ dispatch = None
    /\ matches = << >>
    /\ verification = "none"
    /\ pact_file = None
    /\ server = Serving
    /\ broker = None
    /\ hal = None
    /\ template = None
    /\ pattern = None
    /\ loaded = None
    /\ \E query \in Queries :
          builder = [pattern |-> [default_request EXCEPT !.query = query],
                     actual |-> default_request,
                     given |-> [side \in Sides |-> NothingGiven],
                     calls |-> [side \in Sides |-> 0]]

Built(side, request, given) ==
    /\ builder.calls[side] < MaxCalls
    /\ builder' = [builder EXCEPT ![side] = request, !.given[side] = given,
                                  !.calls[side] = @ + 1]
    /\ UNCHANGED << pact, handlers, dispatch, matches, verification, pact_file, server,
                    broker, hal, template, pattern, loaded, logger, last_error, args >>

BuildHeader(side) ==
    \E name \in HeaderNames,
       value \in (IF side = "pattern" THEN HeaderPatterns ELSE HeaderLiterals) :
        Built(side, header(builder[side], name, value),
              [builder.given[side] EXCEPT
                  !.headers = [k \in DOMAIN @ \cup { name } |->
                                  IF k = name THEN value ELSE @[k]]])

BuildBody(side) ==
    \E string \in BodyLiterals :
        Built(side, body(builder[side], string),
              [builder.given[side] EXCEPT !.body = None])

BuildJsonBody(side) ==
    \E json_pattern \in (IF side = "pattern" THEN BodyPatterns ELSE ActualBodies) :
        Built(side, json_body(builder[side], json_pattern),
              [builder.given[side] EXCEPT !.body = Some(json_pattern)])

NextBuilder == \E side \in Sides : BuildHeader(side) \/ BuildBody(side) \/ BuildJsonBody(side)

SpecBuilder == InitBuilder /\ [][NextBuilder]_vars

(***************************************************************************)
(* Properties of the patterns.                                             *)
(***************************************************************************)
\* The rules a pattern gives on its own under a selector prefix.
RulesOf(p, path) == extract_matching_rules(p, path, EmptyRules)

\* C29: an ArrayLike with minimum length N (1 when with_min_length was not
\* called) leaves, under the selector prefix `path`, the rule {match: type,
\* min: N} at `path`, the rule {match: type} at `path[*].*` and the rules of
\* its element pattern under `path[*]`, next to the rules that were there; its
\* example is the array of N copies of the example of the element.
C29_ArrayLikeRulesAndExample ==
    pattern.pattern.p = "ArrayLike" =>
        LET self == pattern.pattern
            N == IF pattern.min_length = None THEN 1
                 ELSE CHOOSE n \in pattern.min_length : TRUE
            path == pattern.path
            element == RulesOf(self.example_element, path \o "[*]")
        IN /\ \A rules \in pattern.rules :
                 /\ DOMAIN rules = DOMAIN pattern.rules_out
                                   \cup { path, path \o "[*].*" } \cup DOMAIN element
                 /\ rules[path] = (("match" :> "type") @@ ("min" :> ToString(N)))
                 /\ rules[path \o "[*].*"] = ("match" :> "type")
                 /\ \A k \in DOMAIN element : rules[k] = element[k]
                 /\ \A k \in DOMAIN pattern.rules_out :
                       k \notin { path, path \o "[*].*" } \cup DOMAIN element
                           => rules[k] = pattern.rules_out[k]
           /\ \A example \in pattern.example :
                 /\ example.t = "array"
                 /\ Len(example.array) = N
                 /\ \A i \in 1 .. N : example.array[i] = to_example(self.example_element)

C29_Witness ==
    /\ pattern.pattern.p = "ArrayLike"
    /\ pattern.min_length = Some(2)
    /\ pattern.pattern.example_element.p = "SomethingLike"
    /\ pattern.rules_out # EmptyRules
    /\ pattern.rules # None
    /\ pattern.example # None

\* C30: SomethingLike(inner) puts the rule {match: type} at `path` and then
\* the rules of inner under the same `path` (a rule of inner at `path` itself
\* takes the place of the type rule); its example is the example of inner.
C30_SomethingLikeRulesAndExample ==
    pattern.pattern.p = "SomethingLike" =>
        LET inner == pattern.pattern.example
            path == pattern.path
            nested == RulesOf(inner, path)
        IN /\ \A rules \in pattern.rules :
                 /\ DOMAIN rules = DOMAIN pattern.rules_out \cup { path } \cup DOMAIN nested
                 /\ \A k \in DOMAIN rules :
                       rules[k] = IF k \in DOMAIN nested THEN nested[k]
                                  ELSE IF k = path THEN "match" :> "type"
                                  ELSE pattern.rules_out[k]
           /\ \A example \in pattern.example : example = to_example(inner)

C30_Witness ==
    /\ pattern.pattern.p = "SomethingLike"
    /\ pattern.pattern.example = JsonPattern_Json(String("hello"))
    /\ pattern.path = "$"
    /\ pattern.rules_out # EmptyRules
    /\ pattern.rules = Some(rules_insert(pattern.rules_out, "$", "match" :> "type"))
    /\ pattern.example = Some(String("hello"))


(***************************************************************************)
(* Properties of the matching of built requests.                           *)
(***************************************************************************)
\* The mismatches of the actual request against the pattern.
BuiltMismatches == pact_matching_match_request(builder.pattern, builder.actual)

\* The actual request has the method, path, headers and body of the pattern.
Copies ==
    /\ builder.actual.method = builder.pattern.method
    /\ builder.actual.path = builder.pattern.path
    /\ builder.actual.headers = builder.pattern.headers
    /\ builder.actual.body = builder.pattern.body

\* The values of a JSON document a selector reaches.
RECURSIVE values_at(_, _)
values_at(json, exp) ==
    IF exp = << >> THEN { json }
    ELSE CASE json.t = "object" ->
                 UNION { values_at(json.object[k], Tail(exp)) :
                           k \in { k \in DOMAIN json.object :
                                     Head(exp).star \/ Head(exp).name = k } }
           [] json.t = "array" ->
                 UNION { values_at(json.array[i], Tail(exp)) :
                           i \in { i \in DOMAIN json.array :
                                     Head(exp).star \/ Head(exp).name = ToString(i - 1) } }
           [] OTHER -> {}

\* The example satisfies the rule: a regex rule matches it, a min rule is
\* reached by it.
ExampleSatisfies(rule, json) ==
    /\ \A regex \in rule_attribute(Some(rule), "regex") :
          json.t = "string" /\ regex_is_match(regex, json.string)
    /\ \A s \in rule_attribute(Some(rule), "min") :
          json.t = "array" => \A n \in parse_usize(s) : Len(json.array) >= n

\* The examples of the request satisfy the regex and min rules of the request.
SatisfiesOwnRules(request) ==
    \A p \in DOMAIN request.matching_rules :
        LET exp == parse_path_exp(p, 1)
            rule == request.matching_rules[p]
        IN /\ (Len(exp) = 3 /\ exp[2].name = "headers") =>
                 \A k \in DOMAIN OptMap(request.headers) :
                     (exp[3].star \/ exp[3].name = k)
                         => ExampleSatisfies(rule, String(OptMap(request.headers)[k]))
           /\ (Len(exp) >= 2 /\ exp[2].name = "body" /\ request.body.kind = "Present") =>
                 \A json \in parse_json(request.body.bytes) :
                     \A v \in values_at(json, SubSeq(exp, 3, Len(exp))) :
                         ExampleSatisfies(rule, v)

\* C21 as stated: a request that copies the method, path, headers and body of
\* an interaction's request is matched by it with no mismatch.
C21_CopyMatches == Copies => BuiltMismatches = << >>

\* C21 amended: a request that copies the method, path, query, headers and
\* body of an interaction's request, whose examples satisfy its own regex and
\* min rules, is matched by it with no mismatch.
C21_FullCopyOfConsistentRequestMatches ==
    (/\ Copies
     /\ builder.actual.query = builder.pattern.query
     /\ SatisfiesOwnRules(builder.pattern))
        => BuiltMismatches = << >>

C21_Witness ==
    /\ Copies
    /\ builder.actual.query = builder.pattern.query
    /\ SatisfiesOwnRules(builder.pattern)
    /\ builder.pattern.body = Present("Hello")
    /\ builder.pattern.headers = Some("Content-Type" :> "application/json")
    /\ DOMAIN builder.pattern.matching_rules # {}
    /\ BuiltMismatches = << >>


\* The pattern's header called name was given as a Term.
GivenTerm(name) ==
    /\ name \in DOMAIN builder.given["pattern"].headers
    /\ builder.given["pattern"].headers[name].p = "Term"

\* The actual request has a value for the header that the regex of the
\* Term matches.
ValueMatches(name) ==
    \E value \in HeaderValues(OptMap(builder.actual.headers), name) :
        regex_is_match(builder.given["pattern"].headers[name].regex, value)

\* But for the headers, the actual request is a copy of the pattern.
RestCopied ==
    /\ builder.actual.method = builder.pattern.method
    /\ builder.actual.path = builder.pattern.path
    /\ builder.actual.query = builder.pattern.query
    /\ builder.actual.body = builder.pattern.body

HeaderMismatchesFor(name) ==
    { i \in DOMAIN BuiltMismatches :
        BuiltMismatches[i] = Mismatch("HeaderMismatch", name) }

\* C22 as stated: with a regex rule on a header of the expected request, an
\* actual request whose value matches the regex matches with no mismatch and
\* one whose value does not yields exactly one HeaderMismatch.
C22_RegexHeaderDecidesTheMatch ==
    \A name \in HeaderNames :
        (GivenTerm(name) /\ RestCopied) =>
            BuiltMismatches = IF ValueMatches(name) THEN << >>
                              ELSE << Mismatch("HeaderMismatch", name) >>

\* C22 amended: with a regex rule on a header of the expected request, an
\* actual request yields no HeaderMismatch for the header if its value matches
\* the regex and exactly one if it does not; these are all the mismatches
\* when the requests differ in nothing else and no body is expected.
C22_RegexHeaderDecidesTheHeaderMismatch ==
    \A name \in HeaderNames :
        GivenTerm(name) =>
            /\ Cardinality(HeaderMismatchesFor(name)) = IF ValueMatches(name) THEN 0 ELSE 1
            /\ (RestCopied /\ builder.pattern.body = Missing)
                  => BuiltMismatches = IF ValueMatches(name) THEN << >>
                                       ELSE << Mismatch("HeaderMismatch", name) >>

C22_Witness ==
    /\ GivenTerm("Content-Type")
    /\ builder.pattern.headers = Some("Content-Type" :> "application/json")
    /\ builder.actual.headers = Some("Content-Type" :> "application/xml")
    /\ RestCopied
    /\ builder.pattern.body = Missing
    /\ ValueMatches("Content-Type")
    /\ BuiltMismatches = << >>


\* The JSON body of the pattern was given as an object whose field `message`
\* is SomethingLike(inner): the inner patterns.
GivenTypeRule ==
    { json_pattern.fields["message"].example :
        json_pattern \in { g \in builder.given["pattern"].body :
                             /\ g.p = "Object"
                             /\ DOMAIN g.fields = { "message" }
                             /\ g.fields["message"].p = "SomethingLike" } }

\* The JSON body of the actual request was given as an object with the one
\* field `message`: the values of the field.
GivenValue ==
    { g.json.object["message"] :
        g \in { g \in builder.given["actual"].body :
                  g.json.t = "object" /\ DOMAIN g.json.object = { "message" } } }

\* But for the body, the actual request is a copy of the pattern, and the
\* body is JSON by its content type.
JsonBodiesCompared ==
    /\ builder.actual.method = builder.pattern.method
    /\ builder.actual.path = builder.pattern.path
    /\ builder.actual.query = builder.pattern.query
    /\ builder.actual.headers = builder.pattern.headers
    /\ is_json(content_type(builder.pattern))

\* C23 as stated: with a type rule at a field of the expected JSON body, an
\* actual value of the JSON kind of the example matches with no mismatch
\* whatever it is, and a value of another kind yields exactly one
\* BodyMismatch at the path of the field.
C23_TypeRuleComparesKinds ==
    \A inner \in GivenTypeRule, value \in GivenValue :
        JsonBodiesCompared =>
            BuiltMismatches = IF value.t = to_example(inner).t THEN << >>
                              ELSE << Mismatch("BodyMismatch", "$.body.message") >>

\* C23 amended: with a type rule at a field of the expected JSON body whose
\* example is not an array or an object, an actual value of the JSON kind of
\* the example matches with no mismatch whatever it is; a value of another
\* kind than the example, of any kind, yields exactly one BodyMismatch at the
\* path of the field.
C23_TypeRuleComparesKindsOfScalars ==
    \A inner \in GivenTypeRule, value \in GivenValue :
        JsonBodiesCompared =>
            /\ value.t # to_example(inner).t
                  => BuiltMismatches = << Mismatch("BodyMismatch", "$.body.message") >>
            /\ (value.t = to_example(inner).t /\ value.t \notin { "array", "object" })
                  => BuiltMismatches = << >>

C23_Witness ==
    /\ GivenTypeRule = { Hello }
    /\ GivenValue = { String("bye") }
    /\ JsonBodiesCompared
    /\ builder.pattern.body = Present("{\"message\":\"hello\"}")
    /\ builder.actual.body = Present("{\"message\":\"bye\"}")
    /\ BuiltMismatches = << >>

(***************************************************************************)
(* Pact::read_pact and Pact::to_json of pact_matching, as the pact files   *)
(* of the load tests are read and written back.                            *)
(*                                                                         *)
(* A pact file is either text that is not JSON or a document               *)
(*   [consumer, provider, interactions, metadata]                          *)
(* whose metadata is absent or a list of <<key, attributes>> in the order  *)
(* of the file.  A query in a file is absent, a string, or an object.      *)
(***************************************************************************)
Null == [t |-> "null"]

\* The string a pact holds for the value of a metadata attribute.
metadata_value_to_string(json) ==
    IF json.t = "string" THEN json.string ELSE "null"

\* The characters of the metadata keys in the order of their bytes.
Chars ==
    << "-", ".", "0", "1", "2", "3", "9", "S",
       "a", "c", "e", "f", "i", "j", "m", "n", "o", "p", "r", "s", "t",
       "u", "v" >>

CharRank(ch) == CHOOSE i \in 1 .. Len(Chars) : Chars[i] = ch

\* Ord for String: the comparison of the bytes, a prefix first.
RECURSIVE str_lt_from(_, _, _)
str_lt_from(a, b, i) ==
    IF i > Len(b) THEN FALSE
    ELSE IF i > Len(a) THEN TRUE
    ELSE LET x == CharRank(SubSeq(a, i, i))
             y == CharRank(SubSeq(b, i, i))
         IN IF x = y THEN str_lt_from(a, b, i + 1) ELSE x < y

str_lt(a, b) == str_lt_from(a, b, 1)

(***************************************************************************)
(* BTreeMap<String, V> as the list of its entries in the order of the keys.*)
(***************************************************************************)
BTreeMap_new == << >>

RECURSIVE BTreeMap_insert(_, _, _)
BTreeMap_insert(map, key, value) ==
    IF map = << >> THEN << << key, value >> >>
    ELSE IF Head(map)[1] = key THEN << << key, value >> >> \o Tail(map)
    ELSE IF str_lt(key, Head(map)[1]) THEN << << key, value >> >> \o map
    ELSE << Head(map) >> \o BTreeMap_insert(Tail(map), key, value)

BTreeMap_keys(map) == [i \in 1 .. Len(map) |-> map[i][1]]

BTreeMap_contains_key(map, key) == \E i \in 1 .. Len(map) : map[i][1] = key

\* BTreeMap::get
BTreeMap_get(map, key) ==
    { map[i][2] : i \in { j \in 1 .. Len(map) : map[j][1] = key } }

(***************************************************************************)
(* PactSpecification                                                       *)
(***************************************************************************)
PactSpecification_Unknown == "Unknown"
PactSpecification_V1 == "V1"
PactSpecification_V1_1 == "V1_1"
PactSpecification_V2 == "V2"
PactSpecification_V3 == "V3"

PactSpecification_parse(version) ==
    CASE version = "1.0.0" -> PactSpecification_V1
      [] version = "1.1.0" -> PactSpecification_V1_1
      [] version = "2.0.0" -> PactSpecification_V2
      [] version = "3.0.0" -> PactSpecification_V3
      [] OTHER -> PactSpecification_Unknown

\* The attributes of one metadata entry, each value as a string.
parse_meta_data_entry(attributes) ==
    [a \in DOMAIN attributes |-> metadata_value_to_string(attributes[a])]

\* The metadata of the document as the map the pact holds.
RECURSIVE parse_meta_data_from(_, _)
parse_meta_data_from(entries, map) ==
    IF entries = << >> THEN map
    ELSE parse_meta_data_from(Tail(entries),
            BTreeMap_insert(map, Head(entries)[1],
                            parse_meta_data_entry(Head(entries)[2])))

parse_meta_data(document) ==
    IF document.metadata = None THEN BTreeMap_new
    ELSE parse_meta_data_from(CHOOSE m \in document.metadata : TRUE, BTreeMap_new)

\* The version of one metadata entry, Unknown without a recognised version.
entry_version(entry) ==
    IF "version" \in DOMAIN entry
    THEN PactSpecification_parse(entry["version"])
    ELSE PactSpecification_Unknown

determine_spec_version_kebab_only(metadata) ==
    IF BTreeMap_contains_key(metadata, "pact-specification")
    THEN entry_version(CHOOSE e \in BTreeMap_get(metadata, "pact-specification") : TRUE)
    ELSE PactSpecification_Unknown

determine_spec_version(metadata) ==
    IF BTreeMap_contains_key(metadata, "pact-specification")
    THEN entry_version(CHOOSE e \in BTreeMap_get(metadata, "pact-specification") : TRUE)
    ELSE IF BTreeMap_contains_key(metadata, "pactSpecification")
    THEN entry_version(CHOOSE e \in BTreeMap_get(metadata, "pactSpecification") : TRUE)
    ELSE PactSpecification_Unknown

(***************************************************************************)
(* Requests and interactions of a document.                                *)
(***************************************************************************)
NoQuery == [form |-> "absent", text |-> ""]
QueryString(text) == [form |-> "string", text |-> text]
QueryObject(text) == [form |-> "object", text |-> text]

\* Request::from_json: a lowercase method is upper-cased, except under V3;
\* only a query given as a string is loaded.
Request_from_json_upper(request, spec_version) ==
    [ method |-> to_uppercase(request.method),
      path |-> request.path,
      query |-> IF request.query.form = "string"
                THEN Some(request.query.text) ELSE None ]

Request_from_json(request, spec_version) ==
    [ method |-> IF spec_version = PactSpecification_V3
                 THEN request.method ELSE to_uppercase(request.method),
      path |-> request.path,
      query |-> IF request.query.form = "string"
                THEN Some(request.query.text) ELSE None ]

Interaction_from_json(interaction, spec_version) ==
    [ description |-> interaction.description,
      request |-> Request_from_json(interaction.request, spec_version),
      response |-> interaction.response ]

\* Pact::from_json
Pact_from_document(document) ==
    LET metadata == parse_meta_data(document)
        spec_version == determine_spec_version(metadata)
    IN [ consumer |-> document.consumer,
         provider |-> document.provider,
         interactions |->
            [i \in 1 .. Len(document.interactions) |->
                Interaction_from_json(document.interactions[i], spec_version)],
         metadata |-> metadata,
         specification_version |-> spec_version ]

\* Pact::read_pact: only text that is not JSON fails the load.
read_pact(file) ==
    IF file.json = None THEN Err("NotJson")
    ELSE Ok(Pact_from_document(CHOOSE d \in file.json : TRUE))

\* Request::to_json
Request_to_json_as_loaded(self) ==
    [ method |-> self.method,
      path |-> self.path,
      query |-> IF self.query = None THEN NoQuery
                ELSE QueryString(CHOOSE q \in self.query : TRUE) ]

Request_to_json(self) ==
    [ method |-> to_uppercase(self.method),
      path |-> self.path,
      query |-> IF self.query = None THEN NoQuery
                ELSE QueryString(CHOOSE q \in self.query : TRUE) ]

Interaction_to_json(self) ==
    [ description |-> self.description,
      request |-> Request_to_json(self.request),
      response |-> self.response ]

PactRustVersion == "0.2.0"

\* The attributes of a metadata entry as JSON.
metadata_entry_to_json(entry) == [a \in DOMAIN entry |-> String(entry[a])]

\* Pact::metadata_to_json: the entries of the pact, then pact-specification
\* and pact-rust, in one map.
metadata_to_json_appended(self) ==
    [i \in 1 .. Len(self.metadata) |->
        << self.metadata[i][1], metadata_entry_to_json(self.metadata[i][2]) >>]
    \o << << "pact-specification", "version" :> String("2.0.0") >>,
          << "pact-rust", "version" :> String(PactRustVersion) >> >>

metadata_to_json(self) ==
    LET entries ==
            [i \in 1 .. Len(self.metadata) |->
                << self.metadata[i][1],
                   metadata_entry_to_json(self.metadata[i][2]) >>]
        with_spec == BTreeMap_insert(entries, "pact-specification",
                                     "version" :> String("2.0.0"))
    IN BTreeMap_insert(with_spec, "pact-rust",
                       "version" :> String(PactRustVersion))

\* Pact::to_json
to_json(self) ==
    [ consumer |-> self.consumer,
      provider |-> self.provider,
      interactions |->
          [i \in 1 .. Len(self.interactions) |->
              Interaction_to_json(self.interactions[i])],
      metadata |-> Some(metadata_to_json(self)) ]

(***************************************************************************)
(* The pact files: the metadata of the files of the load tests, and        *)
(* interactions with the methods and queries of those files.               *)
(***************************************************************************)
MaxFileInteractions == 2

Version(v) == "version" :> v

FileMetadata ==
    { None,
      Some(<< << "pact-jvm", Version(String("2.0.10")) >> >>),
      Some(<< << "pact-specification", Version(String("2.0.0")) >>,
              << "pact-jvm", Version(String("2.0.10")) >> >>),
      Some(<< << "pact-specification", Version(String("3.0.0")) >>,
              << "pact-jvm", Version(String("2.0.10")) >> >>),
      Some(<< << "pact-specification", Version(Null) >>,
              << "pact-jvm", Version(String("2.0.10")) >> >>),
      Some(<< << "pactSpecification", Version(String("1.1.0")) >>,
              << "pact-jvm", Version(String("2.0.10")) >> >>),
      Some(<< << "pact-specification", Version(String("1.0.0")) >> >>),
      Some(<< << "pactSpecification", Version(String("1.1.0")) >>,
              << "pact-specification", Version(String("2.0.0")) >> >>),
      Some(<< << "pact-specification", Version(String("9.9.9")) >> >>),
      Some(<< << "pact-rust", Version(String("0.1.0")) >> >>) }

FileMethods == { "GET", "get", "post" }
FileQueries == { NoQuery, QueryString("q=p"), QueryObject("q=p") }

FileInteractions ==
    { [ description |-> "test interaction",
        request |-> [method |-> m, path |-> "/", query |-> q],
        response |-> [status |-> 200] ] : m \in FileMethods, q \in FileQueries }

PactFiles ==
    { [json |-> None] }
    \cup { [ json |-> Some([ consumer |-> [name |-> "test_consumer"],
                             provider |-> [name |-> "test_provider"],
                             interactions |-> is,
                             metadata |-> md ]) ] :
             is \in SeqsUpTo(FileInteractions, MaxFileInteractions),
             md \in FileMetadata }

LoadState(file, result, json, reread) ==
    [file |-> file, result |-> result, json |-> json, reread |-> reread]

InitLoad ==
    /\ logger = None
    /\ last_error = None
    /\ args = None
    /\ pact = << >>
    /\ handlers = [h \in Handlers |-> Idle]
    /\ dispatch = None
    /\ matches = << >>
    /\ verification = "none"
    /\ pact_file = None
    /\ server = Serving
    /\ broker = None
    /\ hal = None
    /\ template = None
    /\ pattern = None
    /\ builder = None
    /\ \E file \in PactFiles : loaded = LoadState(file, None, None, None)

UnchangedByLoad ==
    UNCHANGED << pact, handlers, dispatch, matches, verification, pact_file,
                 server, broker, hal, template, pattern, builder,
                 logger, last_error, args >>

\* let pact = Pact::read_pact(&pact_file)
ReadPact ==
    /\ loaded.result = None
    /\ loaded' = [loaded EXCEPT !.result = Some(read_pact(loaded.file))]
    /\ UnchangedByLoad

LoadedPact == (CHOOSE r \in loaded.result : TRUE).value

HasPact == loaded.result # None /\ (CHOOSE r \in loaded.result : TRUE).ok

\* let pact_json = pact.to_json()
ToJson ==
    /\ HasPact
    /\ loaded.json = None
    /\ loaded' = [loaded EXCEPT !.json = Some(to_json(LoadedPact))]
    /\ UnchangedByLoad

\* The written document is read again.
ReadAgain ==
    /\ loaded.json # None
    /\ loaded.reread = None
    /\ loaded' = [loaded EXCEPT
                    !.reread = Some(Pact_from_document(CHOOSE d \in loaded.json : TRUE))]
    /\ UnchangedByLoad

NextLoad == ReadPact \/ ToJson \/ ReadAgain

SpecLoad == InitLoad /\ [][NextLoad]_vars

(***************************************************************************)
(* Properties of reading and writing pact files (SpecLoad).                *)
(***************************************************************************)
FileDocument == CHOOSE d \in loaded.file.json : TRUE
WrittenJson == CHOOSE d \in loaded.json : TRUE
RereadPact == CHOOSE p \in loaded.reread : TRUE
FileEntries ==
    IF FileDocument.metadata = None THEN << >>
    ELSE CHOOSE m \in FileDocument.metadata : TRUE
WrittenMetadata == CHOOSE m \in WrittenJson.metadata : TRUE

\* The attributes a file gives under a metadata key.
FileEntry(key) ==
    { FileEntries[i][2] : i \in { j \in 1 .. Len(FileEntries) : FileEntries[j][1] = key } }

FileDeclares(version) ==
    /\ loaded.file.json # None
    /\ FileEntry("pact-specification") = { Version(String(version)) }

FileHasMethod(method) ==
    /\ loaded.file.json # None
    /\ \E i \in 1 .. Len(FileDocument.interactions) :
          FileDocument.interactions[i].request.method = method

\* C24: parsing the serialization of a pact gives a pact with the same
\* consumer, provider and ordered interactions, and the document written
\* for a pact loaded from a file has the consumer, provider and
\* interactions of the file.
C24_RoundTrip ==
    /\ loaded.json # None =>
          /\ WrittenJson.consumer = FileDocument.consumer
          /\ WrittenJson.provider = FileDocument.provider
          /\ WrittenJson.interactions = FileDocument.interactions
    /\ loaded.reread # None =>
          /\ RereadPact.consumer = LoadedPact.consumer
          /\ RereadPact.provider = LoadedPact.provider
          /\ RereadPact.interactions = LoadedPact.interactions

\* C25: the written metadata has pact-specification with version 2.0.0
\* whatever the file declared, has every key of the loaded pact and the
\* key pact-rust, lists its keys in alphabetical order, and the metadata
\* of the pact in memory is still that of the file.
C25_WrittenMetadata ==
    loaded.json # None =>
        LET keys == BTreeMap_keys(WrittenMetadata)
            held == LoadedPact.metadata
        IN /\ \E i \in 1 .. Len(WrittenMetadata) :
                 WrittenMetadata[i] =
                    << "pact-specification", Version(String("2.0.0")) >>
           /\ \A i \in 1 .. Len(held) :
                 \E j \in 1 .. Len(keys) : keys[j] = held[i][1]
           /\ \E j \in 1 .. Len(keys) : keys[j] = "pact-rust"
           /\ \A i, j \in 1 .. Len(keys) : i < j => str_lt(keys[i], keys[j])
           /\ Len(held) = Len(FileEntries)
           /\ \A i \in 1 .. Len(FileEntries) :
                 BTreeMap_get(held, FileEntries[i][1])
                    = { [a \in DOMAIN FileEntries[i][2] |->
                            IF FileEntries[i][2][a].t = "string"
                            THEN FileEntries[i][2][a].string ELSE "null"] }

C25_Witness ==
    /\ FileDeclares("3.0.0")
    /\ loaded.json # None
    /\ BTreeMap_keys(WrittenMetadata)
          = << "pact-jvm", "pact-rust", "pact-specification" >>
    /\ BTreeMap_get(LoadedPact.metadata, "pact-specification") = { Version("3.0.0") }

RecognisedVersions == { "1.0.0", "1.1.0", "2.0.0", "3.0.0" }

\* The version an entry of the file declares, Unknown when it is not a
\* recognised version string.
DeclaredVersion(entry) ==
    IF "version" \in DOMAIN entry /\ entry["version"].t = "string"
       /\ entry["version"].string \in RecognisedVersions
    THEN PactSpecification_parse(entry["version"].string)
    ELSE PactSpecification_Unknown

\* C26: the specification version of a loaded pact is that of the file's
\* pact-specification entry if there is one, otherwise that of its
\* pactSpecification entry, Unknown when there is neither or the value is
\* not a recognised version, and the load succeeds in each of these cases.
C26_VersionDetection ==
    (loaded.result # None /\ loaded.file.json # None) =>
        /\ HasPact
        /\ LET kebab == FileEntry("pact-specification")
               camel == FileEntry("pactSpecification")
               version == LoadedPact.specification_version
           IN /\ kebab # None =>
                    version = DeclaredVersion(CHOOSE e \in kebab : TRUE)
              /\ (kebab = None /\ camel # None) =>
                    version = DeclaredVersion(CHOOSE e \in camel : TRUE)
              /\ (kebab = None /\ camel = None) =>
                    version = PactSpecification_Unknown

C26_Witness ==
    /\ HasPact
    /\ FileEntry("pact-specification") = None
    /\ FileEntry("pactSpecification") = { Version(String("1.1.0")) }
    /\ LoadedPact.specification_version = PactSpecification_V1_1

C28_WrittenMethod ==
    loaded.json # None =>
        /\ Len(WrittenJson.interactions) = Len(FileDocument.interactions)
        /\ \A i \in 1 .. Len(FileDocument.interactions) :
              WrittenJson.interactions[i].request.method
                 = to_uppercase(FileDocument.interactions[i].request.method)

C28_Witness ==
    /\ loaded.json # None
    /\ loaded.reread = None
    /\ FileDeclares("3.0.0")
    /\ Len(FileDocument.interactions) = 1
    /\ FileDocument.interactions[1].request.method = "get"
    /\ WrittenJson.interactions[1].request.method = "GET"

(***************************************************************************)
(* term!(regex, example): build_regex, then Term::new.                     *)
(***************************************************************************)
\* Regex::new refuses a pattern with an unclosed or unopened group, an
\* unclosed character class, or a repetition operator with nothing to repeat.
RECURSIVE regex_syntax_ok(_, _, _, _)
regex_syntax_ok(s, i, groups, in_class) ==
    IF i > Len(s) THEN groups = 0 /\ ~in_class
    ELSE LET ch == SubSeq(s, i, i)
         IN IF in_class
            THEN regex_syntax_ok(s, i + 1, groups, ch # "]")
            ELSE CASE ch = "[" -> regex_syntax_ok(s, i + 1, groups, TRUE)
                   [] ch = "(" -> regex_syntax_ok(s, i + 1, groups + 1, FALSE)
                   [] ch = ")" -> groups > 0 /\ regex_syntax_ok(s, i + 1, groups - 1, FALSE)
                   [] ch \in { "*", "+", "?" } ->
                        /\ i > 1
                        /\ SubSeq(s, i - 1, i - 1) \notin { "(", "^" }
                        /\ regex_syntax_ok(s, i + 1, groups, FALSE)
                   [] OTHER -> regex_syntax_ok(s, i + 1, groups, FALSE)

\* Regex::new; a Regex is held as the pattern string as_str gives back.
Regex_new(regex_str) ==
    IF regex_syntax_ok(regex_str, 1, 0, FALSE)
    THEN Ok(regex_str)
    ELSE Err("regex parse error: " \o regex_str)

Panic(message) == [panicked |-> TRUE, value |-> None, message |-> message]
Returned(value) == [panicked |-> FALSE, value |-> Some(value), message |-> ""]

build_regex(regex_str) ==
    LET compiled == Regex_new(regex_str)
    IN IF compiled.ok THEN Returned(compiled.value)
       ELSE Panic("could not parse regex \"" \o regex_str \o "\": " \o compiled.error)

Term_new(regex, example) == Term(regex, example)

\* The macro term!: a panic of build_regex leaves no Term.
term(regex_str, example) ==
    LET regex == build_regex(regex_str)
    IN IF regex.panicked THEN regex
       ELSE Returned(Term_new(CHOOSE r \in regex.value : TRUE, example))

RegexStrings ==
    { "[Hh]ello", "^[0-9a-z]$", "h.*", "(hello|bye)", "[Hh", "(hello", "hello)", "*hello" }

TermExamples == { "hello", "10a", "" }

TermState(regex_str, example, path, rules_out) ==
    [regex_str |-> regex_str, given |-> example, path |-> path, rules_out |-> rules_out,
     built |-> None, example |-> None, rules |-> None]

InitTerm ==
    /\ logger = None
    /\ last_error = None
    /\ args = None
    /\ pact = << >>
    /\ handlers = [h \in Handlers |-> Idle]
    /\ dispatch = None
    /\ matches = << >>
    /\ verification = "none"
    /\ pact_file = None
    /\ server = Serving
    /\ broker = None
    /\ hal = None
    /\ template = None
    /\ builder = None
    /\ loaded = None
    /\ \E regex_str \in RegexStrings, example \in TermExamples,
          path \in SelectorPaths, rules_out \in RulesBefore :
          pattern = TermState(regex_str, example, path, rules_out)

UnchangedByTerm ==
    UNCHANGED << pact, handlers, dispatch, matches, verification, pact_file, server,
                 broker, hal, template, builder, loaded, logger, last_error, args >>

\* term!(regex_str, example)
BuildTerm ==
    /\ pattern.built = None
    /\ pattern' = [pattern EXCEPT !.built = Some(term(pattern.regex_str, pattern.given))]
    /\ UnchangedByTerm

TermBuilt == pattern.built # None /\ ~(CHOOSE b \in pattern.built : TRUE).panicked

BuiltTerm == CHOOSE t \in (CHOOSE b \in pattern.built : TRUE).value : TRUE

TermToExample ==
    /\ TermBuilt
    /\ pattern.example = None
    /\ pattern' = [pattern EXCEPT !.example = Some(to_example(BuiltTerm))]
    /\ UnchangedByTerm

TermExtractMatchingRules ==
    /\ TermBuilt
    /\ pattern.rules = None
    /\ pattern' = [pattern EXCEPT
                      !.rules = Some(extract_matching_rules(BuiltTerm, pattern.path,
                                                            pattern.rules_out))]
    /\ UnchangedByTerm

NextTerm == BuildTerm \/ TermToExample \/ TermExtractMatchingRules

SpecTerm == InitTerm /\ [][NextTerm]_vars

\* C31: a term built from a pattern string and an example adds exactly one
\* rule, {match: regex, regex: the pattern string}, at `path` and leaves the
\* other rules as they were; its example is the given string; and a pattern
\* string that does not compile gives a panic and no Term.
C31_TermRuleExampleAndInvalidRegex ==
    \A b \in pattern.built :
        /\ b.panicked <=> ~Regex_new(pattern.regex_str).ok
        /\ b.panicked => b.value = None /\ pattern.example = None /\ pattern.rules = None
        /\ \A rules \in pattern.rules :
              /\ DOMAIN rules = DOMAIN pattern.rules_out \cup { pattern.path }
              /\ rules[pattern.path]
                    = (("match" :> "regex") @@ ("regex" :> pattern.regex_str))
              /\ \A k \in DOMAIN pattern.rules_out \ { pattern.path } :
                    rules[k] = pattern.rules_out[k]
        /\ \A example \in pattern.example : example = String(pattern.given)

C31_Witness ==
    /\ pattern.regex_str = "[Hh]ello"
    /\ pattern.given = "hello"
    /\ pattern.path = "$"
    /\ pattern.rules_out # EmptyRules
    /\ pattern.example = Some(String("hello"))
    /\ pattern.rules # None
    /\ (CHOOSE r \in pattern.rules : TRUE)["$"]
          = (("match" :> "regex") @@ ("regex" :> "[Hh]ello"))

C31_WitnessPanic ==
    /\ pattern.regex_str = "[Hh"
    /\ pattern.built # None
    /\ (CHOOSE b \in pattern.built : TRUE).panicked

(***************************************************************************)
(* One builder and the calls made on it: header(), body() and json_body()  *)
(* in any order, each leaving the request the next call starts from.       *)
(***************************************************************************)
CallHeaderNames == { "Content-Type", "Accept", "X-Digits" }

CallHeaderValues ==
    { StringPattern_String("application/json"), StringPattern_String("123"),
      Term("application/.*", "application/json"), Term("^[0-9]+$", "123") }

CallState(request, given, calls, last) ==
    [request |-> request, given |-> given, calls |-> calls, last |-> last]

InitCalls ==
    /\ logger = None
    /\ last_error = None
    /\ args = None
    /\ pact = << >>
    /\ handlers = [h \in Handlers |-> Idle]
    /\ dispatch = None
    /\ matches = << >>
    /\ verification = "none"
    /\ pact_file = None
    /\ server = Serving
    /\ broker = None
    /\ hal = None
    /\ template = None
    /\ pattern = None
    /\ loaded = None
    /\ builder = CallState(default_request, NothingGiven, 0, None)

Called(request, given, last) ==
    /\ builder.calls < MaxCalls
    /\ builder' = CallState(request, given, builder.calls + 1, last)
    /\ UNCHANGED << pact, handlers, dispatch, matches, verification, pact_file, server,
                    broker, hal, template, pattern, loaded, logger, last_error, args >>

CallHeader ==
    \E name \in CallHeaderNames, value \in CallHeaderValues :
        Called(header(builder.request, name, value),
               [builder.given EXCEPT
                   !.headers = [k \in DOMAIN @ \cup { name } |->
                                   IF k = name THEN value ELSE @[k]]],
               Some([name |-> name, value |-> value, before |-> builder.request]))

CallBody ==
    \E string \in BodyLiterals :
        Called(body(builder.request, string),
               [builder.given EXCEPT !.body = None], None)

CallJsonBody ==
    \E json_pattern \in BodyPatterns :
        Called(json_body(builder.request, json_pattern),
               [builder.given EXCEPT !.body = Some(json_pattern)], None)

NextCalls == CallHeader \/ CallBody \/ CallJsonBody

SpecCalls == InitCalls /\ [][NextCalls]_vars

\* The selector of a header of the model, written out.
HeaderSelector(name) ==
    CASE name = "Content-Type" -> "$.headers['Content-Type']"
      [] name = "X-Digits" -> "$.headers['X-Digits']"
      [] name = "Accept" -> "$.headers.Accept"

\* C32: header(name, value) leaves the example of the value under `name` in
\* the headers, the other headers as they were, and the rules of the value
\* extracted at `$.headers` followed by the key of `name`, which is
\* bracket-quoted when the name has a character no identifier has.
C32_HeaderExampleAndSelector ==
    \A last \in builder.last :
        LET headers == OptMap(builder.request.headers)
            before == OptMap(last.before.headers)
            rules == builder.request.matching_rules
            selector == HeaderSelector(last.name)
        IN /\ DOMAIN headers = DOMAIN before \cup { last.name }
           /\ headers[last.name] = (IF last.value.p = "Term" THEN last.value.example
                                    ELSE last.value.string)
           /\ \A k \in DOMAIN before \ { last.name } : headers[k] = before[k]
           /\ rules = extract_matching_rules(last.value, selector,
                                             last.before.matching_rules)
           /\ last.value.p = "Term" =>
                 /\ selector \in DOMAIN rules
                 /\ rules[selector]
                       = (("match" :> "regex") @@ ("regex" :> last.value.regex))

C32_Witness ==
    /\ builder.last = Some([name |-> "Content-Type",
                            value |-> Term("application/.*", "application/json"),
                            before |-> default_request])
    /\ builder.request.headers = Some("Content-Type" :> "application/json")
    /\ DOMAIN builder.request.matching_rules = { "$.headers['Content-Type']" }

C32_WitnessIdentifier ==
    /\ builder.last # None
    /\ (CHOOSE l \in builder.last : TRUE).name = "Accept"
    /\ "$.headers.Accept" \in DOMAIN builder.request.matching_rules

\* The rules of the patterns the builder holds now: those of each header
\* pattern at its selector and those of the body pattern at `$.body`.
RECURSIVE HeaderRulesInEffect(_, _)
HeaderRulesInEffect(names, given) ==
    IF names = {} THEN EmptyRules
    ELSE LET name == CHOOSE n \in names : TRUE
         IN extract_matching_rules(given[name], HeaderSelector(name),
                                   HeaderRulesInEffect(names \ { name }, given))

RulesInEffect ==
    LET of_headers == HeaderRulesInEffect(DOMAIN builder.given.headers,
                                          builder.given.headers)
    IN IF builder.given.body = None THEN of_headers
       ELSE extract_matching_rules(CHOOSE b \in builder.given.body : TRUE,
                                   "$.body", of_headers)

\* C38: after any calls of header(), body() and json_body() the matching
\* rules of the builder are the rules of the patterns now in effect, and no
\* rule of a replaced pattern is left.
C38_RulesAreThoseInEffect ==
    builder.request.matching_rules = RulesInEffect

(***************************************************************************)
(* pact_matching_ffi::log: logger_init, logger_attach_sink, logger_apply   *)
(* on the thread-local LOGGER.  A Dispatch is the list of its sinks.       *)
(***************************************************************************)
Status_Success == 0
Status_CantSetLogger == -1
Status_NoLogger == -2
Status_SpecifierNotUtf8 == -3
Status_UnknownSinkType == -4
Status_MissingFilePath == -5
Status_CantOpenSinkToFile == -6

MaxLoggerCalls == 4

\* A sink specifier is a C string; NotUtf8 stands for bytes that are no UTF-8.
NotUtf8 == "\\xff"
SinkSpecifiers ==
    { "stdout", "buffer", "file /some/file/path", "file /no/permission", "file",
      "syslog", NotUtf8 }
UnwritablePaths == { "/no/permission" }

\* CStr::to_str
CStr_to_str(c_str) == IF c_str = NotUtf8 THEN Err("Utf8Error") ELSE Ok(c_str)

\* The length of the first word of a specifier.
RECURSIVE word_end(_, _)
word_end(s, i) ==
    IF i > Len(s) \/ SubSeq(s, i, i) = " " THEN i - 1 ELSE word_end(s, i + 1)

SinkResult(ok, sink, status) == [ok |-> ok, sink |-> sink, status |-> status]

\* Sink::try_from(&str), with the status its error converts to.
Sink_try_from(specifier) ==
    LET n == word_end(specifier, 1)
        type == SubSeq(specifier, 1, n)
        rest == SubSeq(specifier, n + 2, Len(specifier))
    IN CASE type \in { "stdout", "stderr", "buffer" } /\ n = Len(specifier) ->
                SinkResult(TRUE, specifier, Status_Success)
         [] type = "file" /\ rest = "" ->
                SinkResult(FALSE, "", Status_MissingFilePath)
         [] type = "file" /\ rest \in UnwritablePaths ->
                SinkResult(FALSE, "", Status_CantOpenSinkToFile)
         [] type = "file" -> SinkResult(TRUE, specifier, Status_Success)
         [] OTHER -> SinkResult(FALSE, "", Status_UnknownSinkType)

\* The thread-local LOGGER and the logger the program has applied.
LoggerCell(LOGGER, applied) == [LOGGER |-> LOGGER, applied |-> applied]

\* Dispatch::new
Dispatch_new == << >>

\* set_logger
set_logger(cell, new_logger) == [cell EXCEPT !.LOGGER = Some(new_logger)]

\* add_sink: takes the logger, if there is one, chains the sink and puts it back.
add_sink(cell, sink) ==
    IF cell.LOGGER = None
    THEN [status |-> Status_NoLogger, cell |-> cell]
    ELSE [status |-> Status_Success,
          cell |-> [cell EXCEPT
                      !.LOGGER = Some(Append(CHOOSE d \in @ : TRUE, sink))]]

\* apply_logger: takes the logger; Dispatch::apply fails when the program has
\* a logger already.
apply_logger(cell) ==
    IF cell.LOGGER = None THEN [status |-> Status_NoLogger, cell |-> cell]
    ELSE IF cell.applied # None
    THEN [status |-> Status_CantSetLogger, cell |-> [cell EXCEPT !.LOGGER = None]]
    ELSE [status |-> Status_Success,
          cell |-> [cell EXCEPT !.LOGGER = None, !.applied = cell.LOGGER]]

logger_init(cell) == [status |-> Status_Success, cell |-> set_logger(cell, Dispatch_new)]

\* Mutant: a sink attached when there is no logger starts a new logger.
logger_attach_sink_or_init(cell, sink_specifier, level_filter) ==
    LET specifier == CStr_to_str(sink_specifier)
    IN IF ~specifier.ok THEN [status |-> Status_SpecifierNotUtf8, cell |-> cell]
       ELSE LET sink == Sink_try_from(specifier.value)
            IN IF ~sink.ok THEN [status |-> sink.status, cell |-> cell]
               ELSE add_sink(IF cell.LOGGER = None THEN set_logger(cell, Dispatch_new)
                             ELSE cell,
                             [sink |-> sink.sink, level |-> level_filter])

logger_attach_sink(cell, sink_specifier, level_filter) ==
    LET specifier == CStr_to_str(sink_specifier)
    IN IF ~specifier.ok THEN [status |-> Status_SpecifierNotUtf8, cell |-> cell]
       ELSE LET sink == Sink_try_from(specifier.value)
            IN IF ~sink.ok THEN [status |-> sink.status, cell |-> cell]
               ELSE add_sink(cell, [sink |-> sink.sink, level |-> level_filter])

logger_apply(cell) == apply_logger(cell)

LevelFilters == { "Info" }

NoCall == [fn |-> "none", specifier |-> "", status |-> 0]

LoggerState(cell, inited, applying, last, before, calls) ==
    [cell |-> cell, inited |-> inited, applying |-> applying, last |-> last,
     before |-> before, calls |-> calls]

InitLogger ==
    /\ last_error = None
    /\ args = None
    /\ pact = << >>
    /\ handlers = [h \in Handlers |-> Idle]
    /\ dispatch = None
    /\ matches = << >>
    /\ verification = "none"
    /\ pact_file = None
    /\ server = Serving
    /\ broker = None
    /\ hal = None
    /\ template = None
    /\ pattern = None
    /\ builder = None
    /\ loaded = None
    /\ logger = LoggerState(LoggerCell(None, None), FALSE, FALSE, NoCall,
                            [inited |-> FALSE, applying |-> FALSE,
                             cell |-> LoggerCell(None, None)], 0)

\* One call of the C API: `inited` says that logger_init was called, and
\* `applying` that logger_apply was called since the last logger_init.
LoggerCalled(fn, specifier, result, inited, applying) ==
    /\ logger.calls < MaxLoggerCalls
    /\ logger' = LoggerState(result.cell, inited, applying,
                             [fn |-> fn, specifier |-> specifier, status |-> result.status],
                             [inited |-> logger.inited, applying |-> logger.applying,
                              cell |-> logger.cell],
                             logger.calls + 1)
    /\ UNCHANGED << pact, handlers, dispatch, matches, verification, pact_file, server,
                    broker, hal, template, pattern, builder, loaded, last_error, args >>

LoggerInit ==
    LoggerCalled("logger_init", "", logger_init(logger.cell), TRUE, FALSE)

LoggerAttachSink ==
    \E sink_specifier \in SinkSpecifiers, level_filter \in LevelFilters :
        LoggerCalled("logger_attach_sink", sink_specifier,
                     logger_attach_sink(logger.cell, sink_specifier, level_filter),
                     logger.inited, logger.applying)

LoggerApply ==
    LoggerCalled("logger_apply", "", logger_apply(logger.cell), logger.inited, TRUE)

NextLogger == LoggerInit \/ LoggerAttachSink \/ LoggerApply

SpecLogger == InitLogger /\ [][NextLogger]_vars

\* The specifiers of the model that name a sink that can be opened.
GoodSpecifiers == { "stdout", "buffer", "file /some/file/path" }

C33_WitnessBeforeInit ==
    /\ logger.last.fn = "logger_attach_sink"
    /\ ~logger.before.inited
    /\ logger.last.specifier = "stdout"
    /\ logger.last.status = -2

(***************************************************************************)
(* pact_ffi::error: pactffi_get_error_message and the thread-local         *)
(* LAST_ERROR.  A message and a buffer are lists of bytes; Nul is the      *)
(* zero byte.                                                              *)
(***************************************************************************)
Error_Success == 0
Error_NullBuffer == -1
Error_BufferTooSmall == -2
Error_InteriorNul == -4

MaxBufferLength == 6

Nul == "\\0"

ErrorMessages ==
    { << >>, << "b", "o", "o", "m" >>, << "n", "o" >>, << "a", Nul, "b" >>,
      << "t", "o", "o", " ", "l", "o", "n", "g" >> }

\* What the caller left in a buffer before the call.
Garbage == { "x", "y" }

\* get_error_msg().unwrap_or_else(String::new)
get_error_msg(cell) == IF cell = None THEN << >> ELSE CHOOSE m \in cell : TRUE

\* write_to_c_buf: the message and its terminating zero byte at the start of
\* the buffer, zero bytes in the rest.
write_to_c_buf(src, dst) ==
    IF \E i \in 1 .. Len(src) : src[i] = Nul
    THEN [ok |-> FALSE, written |-> 0, status |-> Error_InteriorNul, dst |-> dst]
    ELSE IF Len(src) + 1 > Len(dst)
    THEN [ok |-> FALSE, written |-> 0, status |-> Error_BufferTooSmall, dst |-> dst]
    ELSE [ok |-> TRUE, written |-> Len(src) + 1, status |-> Error_Success,
          dst |-> [i \in 1 .. Len(dst) |-> IF i <= Len(src) THEN src[i] ELSE Nul]]

\* pactffi_get_error_message(buffer, length): the status and the buffer after.
pactffi_get_error_message(cell, buffer) ==
    IF buffer = None
    THEN [status |-> Error_NullBuffer, buffer |-> buffer]
    ELSE LET last_err == get_error_msg(cell)
             write == write_to_c_buf(last_err, CHOOSE b \in buffer : TRUE)
         IN [status |-> IF write.ok THEN Error_Success ELSE write.status,
             buffer |-> Some(write.dst)]

ErrorState(cell, buffer, status) ==
    [LAST_ERROR |-> cell, buffer |-> buffer, status |-> status]

InitError ==
    /\ logger = None
    /\ args = None
    /\ pact = << >>
    /\ handlers = [h \in Handlers |-> Idle]
    /\ dispatch = None
    /\ matches = << >>
    /\ verification = "none"
    /\ pact_file = None
    /\ server = Serving
    /\ broker = None
    /\ hal = None
    /\ template = None
    /\ pattern = None
    /\ builder = None
    /\ loaded = None
    /\ last_error = ErrorState(None, None, None)

UnchangedByError ==
    UNCHANGED << pact, handlers, dispatch, matches, verification, pact_file, server,
                 broker, hal, template, pattern, builder, loaded, logger, args >>

\* set_error_msg(e) of a failing FFI function.
SetErrorMsg ==
    /\ \E message \in ErrorMessages :
          last_error' = ErrorState(Some(message), last_error.buffer, None)
    /\ UnchangedByError

\* The caller allocates a buffer, or passes a null pointer.
Allocate ==
    /\ \/ last_error' = ErrorState(last_error.LAST_ERROR, None, None)
       \/ \E length \in 0 .. MaxBufferLength, fill \in Garbage :
             last_error' = ErrorState(last_error.LAST_ERROR,
                                      Some([i \in 1 .. length |-> fill]), None)
    /\ UnchangedByError

GetErrorMessage ==
    /\ last_error.status = None
    /\ LET call == pactffi_get_error_message(last_error.LAST_ERROR, last_error.buffer)
       IN last_error' = ErrorState(last_error.LAST_ERROR, call.buffer, Some(call.status))
    /\ UnchangedByError

NextError == SetErrorMsg \/ Allocate \/ GetErrorMessage

SpecError == InitError /\ [][NextError]_vars

\* C34: the status is the number of bytes written to the buffer (the
\* message, with or without its zero byte; zero when there is no last
\* error), -1 for a null buffer and -2 for a buffer too small for the
\* message, and after a success the rest of the buffer is zero.
C34_StatusIsBytesWritten ==
    \A status \in last_error.status :
        LET message == get_error_msg(last_error.LAST_ERROR)
            plain == \A i \in 1 .. Len(message) : message[i] # Nul
        IN IF last_error.buffer = None THEN status = -1
           ELSE LET buffer == CHOOSE b \in last_error.buffer : TRUE
                IN /\ (plain /\ Len(buffer) <= Len(message)) => status = -2
                   /\ (plain /\ Len(buffer) > Len(message)) =>
                         /\ status \in { Len(message), Len(message) + 1 }
                         /\ last_error.LAST_ERROR = None => status = 0
                         /\ \A i \in 1 .. Len(buffer) :
                               buffer[i] = (IF i <= Len(message) THEN message[i] ELSE Nul)

(***************************************************************************)
(* Further properties of the dispatch.                                     *)
(***************************************************************************)
\* C35: a request for which some interaction of the pact has neither a
\* MethodMismatch nor a PathMismatch is answered by RequestMatch or
\* RequestMismatch, never by RequestNotFound.
C35_NotFoundOnlyWhenNoInteractionFits ==
    \A d \in dispatch :
        (\E n \in DOMAIN pact : ~HasMethodOrPath(MismatchesOf(n, d.request)))
            => d.result.tag \in { "RequestMatch", "RequestMismatch" }

\* C35 (amended): a request whose first-ranked interaction has neither a
\* MethodMismatch nor a PathMismatch is answered by RequestMatch or
\* RequestMismatch, and RequestNotFound is given only for a pact without
\* interactions or a first-ranked interaction with one of the two.
C35_NotFoundOnlyWhenFirstRankedDoesNotFit ==
    \A d \in dispatch :
        /\ (pact # << >> /\ ~HasMethodOrPath(MismatchesOf(FirstRanked(d.request), d.request)))
              => d.result.tag \in { "RequestMatch", "RequestMismatch" }
        /\ d.result.tag = "RequestNotFound" =>
              \/ pact = << >>
              \/ HasMethodOrPath(MismatchesOf(FirstRanked(d.request), d.request))

C35_Witness ==
    \E d \in dispatch :
        /\ Len(pact) = 2
        /\ HasMethodOrPath(MismatchesOf(1, d.request))
        /\ ~HasMethodOrPath(MismatchesOf(2, d.request))
        /\ FirstRanked(d.request) = 2
        /\ d.result.tag = "RequestMismatch"


(***************************************************************************)
(* The server started with a pact whose responses have any status a u16    *)
(* holds: server.rs start, handle_request, handle_mock_request_error.      *)
(***************************************************************************)
StatusInteractions ==
    { Interaction("plain",
          PactRequest("GET", "/a", None, None, Missing),
          PactResponse(200, None, Present("ok"))),
      Interaction("invalid response header",
          PactRequest("GET", "/a", None, None, Missing),
          PactResponse(200, Some("X-A" :> "bad\nvalue"), Present("ok"))),
      Interaction("status 99",
          PactRequest("GET", "/a", None, None, Missing),
          PactResponse(99, None, Missing)),
      Interaction("status 600",
          PactRequest("GET", "/a", None, Some("X-A" :> "1"), Missing),
          PactResponse(600, Some("Content-Type" :> "text/plain"), Present("ok"))) }

StatusPacts == SeqsUpTo(StatusInteractions, MaxServed)

InitStatus ==
    /\ logger = None
    /\ last_error = None
    /\ args = None
    /\ pact \in StatusPacts
    /\ handlers = [h \in Handlers |-> Idle]
    /\ dispatch = None
    /\ matches = << >>
    /\ verification = "none"
    /\ pact_file = None
    /\ server = Serving
    /\ broker = None
    /\ hal = None
    /\ template = None
    /\ pattern = None
    /\ builder = None
    /\ loaded = None

NextStatus ==
    \/ \E h \in Handlers, req \in HyperRequests : Receive(h, req)
    \/ \E h \in Handlers : handle_request(h)
    \/ \E h \in Handlers : SendResponse(h)
    \/ \E h \in Handlers : ConnectionDropped(h)
    \/ ShutdownSignal
    \/ Complete

SpecStatus == InitStatus /\ [][NextStatus]_vars

\* C36: every request the server accepted receives exactly one response: a
\* request future ends only once it holds a response, which is then written
\* to the connection, whatever the request and whatever the pact contains.
C36_EveryRequestAnswered ==
    [][\A h \in Handlers :
          (handlers[h].pc # "idle" /\ handlers'[h].pc = "idle") =>
              /\ handlers[h].pc = "responded"
              /\ Cardinality(handlers[h].response) = 1]_vars

\* A matched request whose future panicked.
C36_Panicked ==
    \E h \in Handlers :
        /\ handlers[h].pc = "panicked"
        /\ handlers[h].response = None
        /\ \E m \in handlers[h].match_result : m.tag = "RequestMatch"


(***************************************************************************)
(* The order of the requests of fetch_pacts_from_broker.                   *)
(***************************************************************************)
\* The text of the link pb:latest-provider-pacts of the root with the name
\* of the provider in the place of {provider}.
ExpandedLatest ==
    CASE broker.root.content_type = HalJson ->
           "http://localhost/pacts/provider/happy_provider/latest"
      [] broker.root.content_type = Json ->
           "/pacts/provider/happy_provider/latest?q=1"

\* The hrefs of the entries that have one, in the order of the entries.
RECURSIVE ListedHrefs(_)
ListedHrefs(entries) ==
    IF entries = << >> THEN << >>
    ELSE (IF EntryHref(Head(entries)) = None THEN << >>
          ELSE << CHOOSE href \in EntryHref(Head(entries)) : TRUE >>)
             \o ListedHrefs(Tail(entries))

\* The requests are the root, then the expanded link, then the pact links
\* that were listed, in their order.
RequestsInOrder ==
    /\ \A n \in DOMAIN hal.sent :
         /\ n = 1 => /\ hal.sent[n].path = << "/" >>
                     /\ hal.sent[n].link_url = None
         /\ n = 2 => \E text \in hal.sent[n].link_url : Str(text) = ExpandedLatest
         /\ n > 2 => /\ HasPactsArray
                     /\ n - 2 <= Len(ListedHrefs(Entries))
                     /\ hal.sent[n].link_url = Some(ListedHrefs(Entries)[n - 2])
    /\ (hal.pc = "done" /\ HasPactsArray) => Len(hal.sent) = Len(ListedHrefs(Entries)) + 2

\* A request is sent only after the requests of the navigation before it
\* succeeded.
AfterSuccessOnly ==
    /\ Len(hal.sent) >= 2 => hal.sent[1].result.ok
    /\ Len(hal.sent) >= 3 => hal.sent[2].result.ok

\* The root is requested only by a client that holds no resource.
RootWhenNothingHeld ==
    \A n \in DOMAIN hal'.sent :
        (n > Len(hal.sent) /\ hal'.sent[n].link_url = None) => hal.path_info = None

\* The fetch of the root or of the provider-pacts link failed.
NavigationFetchFailed ==
    /\ Len(hal.sent) \in {1, 2}
    /\ ~hal.sent[Len(hal.sent)].result.ok

FailedFetchError == hal.sent[Len(hal.sent)].result.error

\* C37 as claimed: the requests are sent in the order root, expanded
\* pb:latest-provider-pacts link, pact links as listed; the root is fetched
\* only when no resource is held; a request is sent only if the navigation
\* before it succeeded; when the fetch of the root or of the provider-pacts
\* link fails no later request is sent and the error of that fetch is the
\* result.
C37_RequestOrderAndFirstError ==
    /\ [](/\ RequestsInOrder
          /\ AfterSuccessOnly
          /\ NavigationFetchFailed =>
               /\ hal.pc = "done"
               /\ \A r \in hal.result : ~r.ok /\ r.error = FailedFetchError)
    /\ [][RootWhenNothingHeld]_vars

\* C37 as amended: as claimed, but the error of a failed fetch of the root
\* or of the provider-pacts link is the result only when it is not NotFound;
\* a NotFound error is replaced by the NotFound error "No pacts for provider
\* 'X' where found in the pact broker. URL: '<broker url>'".
C37_RequestOrderAndNavigationError ==
    /\ [](/\ RequestsInOrder
          /\ AfterSuccessOnly
          /\ NavigationFetchFailed =>
               /\ hal.pc = "done"
               /\ \A r \in hal.result :
                    /\ ~r.ok
                    /\ FailedFetchError.kind # "NotFound" => r.error = FailedFetchError
                    /\ FailedFetchError.kind = "NotFound" =>
                         r.error = PactBrokerError("NotFound", NoPactsMessage))
    /\ [][RootWhenNothingHeld]_vars

\* The root, the link and two pacts were requested and the call returned.
C37_Witness ==
    /\ hal.pc = "done"
    /\ Len(hal.sent) = 4
    /\ hal.sent[3].link_url # hal.sent[4].link_url
    /\ \E r \in hal.result : r.ok

\* The root answered 404 and the call returned after one request.
C37_WitnessRootNotFound ==
    /\ hal.pc = "done"
    /\ Len(hal.sent) = 1
    /\ hal.sent[1].result.error.kind = "NotFound"
    /\ \E r \in hal.result : ~r.ok

\* The provider-pacts link answered 500 and the call returned its error.
C37_WitnessLinkFailed ==
    /\ hal.pc = "done"
    /\ Len(hal.sent) = 2
    /\ ~hal.sent[2].result.ok
    /\ \E r \in hal.result : ~r.ok /\ r.error = hal.sent[2].result.error


(***************************************************************************)
(* The pact of the running server.                                         *)
(***************************************************************************)
\* C39: the pact given to start() is not modified while the server runs:
\* every step of every request future, in every interleaving, leaves the
\* interactions and their order as they are, and requests that are the same
\* have the same match result whenever they are dispatched.
C39_PactIsReadOnly ==
    /\ [][pact' = pact]_vars
    /\ [](\A h \in Dispatched :
            /\ handlers[h].match_result =
                   Some(match_request(CHOOSE r \in handlers[h].request : TRUE, pact))
            /\ \A g \in Dispatched :
                 handlers[g].request = handlers[h].request =>
                     handlers[g].match_result = handlers[h].match_result)

\* Two request futures dispatched the same request, which matched, one
\* after the other had sent a response and accepted the request again.
C39_Witness ==
    /\ pact # << >>
    /\ \A h \in Handlers :
         /\ h \in Dispatched
         /\ handlers[h].request = handlers[1].request
         /\ \E m \in handlers[h].match_result : m.tag = "RequestMatch"


(***************************************************************************)
(* The validator of the port arguments of the command line: main.rs        *)
(* integer_value.  A string is the sequence of its characters.             *)
(***************************************************************************)
MaxPortLength == 5

\* ARABIC-INDIC DIGIT THREE, a character that is numeric and is not an
\* ASCII digit.
ArabicIndicThree == "U+0663"

PortChars == {"0", "3", "5", "6", "+", "x", ArabicIndicThree}

DigitValue ==
    ("0" :> 0) @@ ("1" :> 1) @@ ("2" :> 2) @@ ("3" :> 3) @@ ("4" :> 4)
        @@ ("5" :> 5) @@ ("6" :> 6) @@ ("7" :> 7) @@ ("8" :> 8) @@ ("9" :> 9)

\* char::is_numeric
is_numeric(ch) == ch \in DOMAIN DigitValue \/ ch = ArabicIndicThree

\* char::to_digit(10)
to_digit(ch) == IF ch \in DOMAIN DigitValue THEN Some(DigitValue[ch]) ELSE None

u16_MAX == 2 ^ 16 - 1

checked_mul(a, m) == IF a * m > u16_MAX THEN None ELSE Some(a * m)
checked_add(a, d) == IF a + d > u16_MAX THEN None ELSE Some(a + d)

Empty_kind == "cannot parse integer from empty string"
InvalidDigit_kind == "invalid digit found in string"
Overflow_kind == "number too large to fit in target type"

\* The loop of from_str_radix over the digits, from left to right.
RECURSIVE parse_digits(_, _)
parse_digits(digits, result) ==
    IF digits = << >> THEN Ok({})
    ELSE IF to_digit(Head(digits)) = None THEN Err(InvalidDigit_kind)
    ELSE LET mul == checked_mul(result, 10)
         IN IF mul = None THEN Err(Overflow_kind)
            ELSE LET add == checked_add(CHOOSE x \in mul : TRUE,
                                        CHOOSE x \in to_digit(Head(digits)) : TRUE)
                 IN IF add = None THEN Err(Overflow_kind)
                    ELSE parse_digits(Tail(digits), CHOOSE x \in add : TRUE)

\* str::parse::<u16>: the results the standard library can give.  A `+`
\* before the digits is skipped; for a `+` alone the kind of the error
\* depends on the version of the library.
u16_from_str(src) ==
    IF src = << >> THEN { Err(Empty_kind) }
    ELSE IF src = << "+" >> THEN { Err(Empty_kind), Err(InvalidDigit_kind) }
    ELSE IF Head(src) = "+" THEN { parse_digits(Tail(src), 0) }
    ELSE { parse_digits(src, 0) }

\* Mutant: the digits are parsed into a type without an upper limit.
integer_value_of_any_size(v) ==
    { IF v # << >> /\ \A n \in DOMAIN v : to_digit(v[n]) # None
      THEN Ok({})
      ELSE Err("'" \o Str(v) \o "' is not a valid port value: " \o InvalidDigit_kind) }

integer_value(v) ==
    { IF parsed.ok THEN Ok({})
      ELSE Err("'" \o Str(v) \o "' is not a valid port value: " \o parsed.error) :
        parsed \in u16_from_str(v) }

PortStrings == SeqsUpTo(PortChars, MaxPortLength)

InitArgs ==
    /\ logger = None
    /\ last_error = None
    /\ args \in [value : PortStrings, validation : {None}]
    /\ pact = << >>
    /\ handlers = [h \in Handlers |-> Idle]
    /\ dispatch = None
    /\ matches = << >>
    /\ verification = "none"
    /\ pact_file = None
    /\ server = Serving
    /\ broker = None
    /\ hal = None
    /\ template = None
    /\ pattern = None
    /\ builder = None
    /\ loaded = None

\* clap calls the validator with the value of the argument.
Validate ==
    /\ args.validation = None
    /\ \E validation \in integer_value(args.value) :
          args' = [args EXCEPT !.validation = Some(validation)]
    /\ UNCHANGED << pact, handlers, dispatch, matches, verification, pact_file, server,
                    broker, hal, template, pattern, builder, loaded, logger, last_error >>

NextArgs == Validate

SpecArgs == InitArgs /\ [][NextArgs]_vars

Accepted == \E validation \in args.validation : validation.ok
Rejected == \E validation \in args.validation : ~validation.ok

\* The number a sequence of ASCII digits writes.
RECURSIVE Numeral(_)
Numeral(digits) ==
    IF digits = << >> THEN 0
    ELSE 10 * Numeral(SubSeq(digits, 1, Len(digits) - 1)) + DigitValue[digits[Len(digits)]]

Unsigned(v) == IF v # << >> /\ Head(v) = "+" THEN Tail(v) ELSE v

C40_WitnessOverflow ==
    /\ args.value = << "6", "5", "5", "3", "6" >>
    /\ Rejected

\* A string with a character that is not numeric that is accepted.
C40_WitnessSign ==
    /\ args.value = << "+", "3" >>
    /\ Accepted

=============================================================================
